---- MODULE Spec2Model ----
(***************************************************************************)
(* Stateful-input core of filebeat (input-cursor): managedInput.Run spawns *)
(* one worker per configured source; every worker connects a pipeline      *)
(* client, locks the resource of its source, runs the source's collection  *)
(* logic behind a Cursor, and checkpoints are committed by the ACK handler *)
(* once the pipeline confirms delivery.                                    *)
(*                                                                         *)
(* managedInput.Run, managedInput.runSource, managedInput.createSourceID   *)
(* and newInputACKHandler are translated from                              *)
(* src/filebeat/input/v2/input.go.  The resource store (Lock, Release,     *)
(* UpdateTTL), the Cursor, updateOp.Execute and the delivery pipeline live *)
(* in other files; they follow sections 4.1-4.3 and 6 of the design        *)
(* specification.                                                          *)
(***************************************************************************)
EXTENDS Integers, Sequences, FiniteSets, TLC

\* ------------------------------------------------------------------------
\* Bounds
\* ------------------------------------------------------------------------
\* UpdateOps staged over one behaviour (all workers, all process lifetimes)
MaxOps == 3
\* events that may wait in the delivery pipeline for their confirmation
MaxQueue == 2
\* process terminations (crash followed by a restart) in one behaviour
MaxCrashes == 1
\* events published by one worker that await confirmation, where the
\* confirmation batches of the ACK handler are enumerated
MaxBatch == 4
MaxAge == 3
MaxCalls == 2

\* ------------------------------------------------------------------------
\* Configuration: two managedInput instances of one input type.  Input in1
\* has the sources a and b, input in2 has the source a, so that w1 and w3
\* compute the same resource key.  A third source c of in1, served by w4, is
\* configured in the three-source scenario only.
\* ------------------------------------------------------------------------
Inputs == {"in1", "in2"}
Workers == {"w1", "w2", "w3", "w4"}

InputOf(w) == IF w = "w3" THEN "in2" ELSE "in1"
SourceName(w) == IF w = "w2" THEN "b" ELSE IF w = "w4" THEN "c" ELSE "a"
WorkersOf(i) == {w \in Workers : InputOf(w) = i}

\* inp.manager.Type, inp.userID and inp.cleanTimeout
ManagerType == "T"
UserID(i) == ""
CleanTimeout(i) == IF i = "in1" THEN 1 ELSE 2

\* createSourceID that leaves the user ID out of the key
sourceID_NoUserID(Type, userID, name) == Type \o "::" \o name

\* the body of managedInput.createSourceID, for the manager's Type, the
\* input's userID and the source's Name(): the two Sprintf formats
sourceID(Type, userID, name) ==
    IF userID # ""
    THEN Type \o "::" \o userID \o "::" \o name
    ELSE Type \o "::" \o name

\* managedInput.createSourceID
createSourceID(i, name) == sourceID(ManagerType, UserID(i), name)

KeyOf(w) == createSourceID(InputOf(w), SourceName(w))
Keys == {KeyOf(w) : w \in Workers}

\* lock state of a resource that no worker holds
Free == "free"

\* error values of a worker; NoErr is Go's nil error
NoErr == "nil"
ErrConnect == "connect failed"
ErrCancelled == "context canceled"
ErrFatal == "fatal"
ErrPanic == "input panic"
ErrInvalid == "invalid source"
\* the value of a panic that has not been recovered
PanicValue == "panic"

\* the values createSourceID is called with: manager types, user IDs and
\* source names, some of which contain the separator
Types == {"T", "T::u"}
UserIDs == {"", "u", "u::a"}
Names == {"a", "b", "u::a"}

\* the dynamic type behind an interface value: one that does not implement
\* FIPSAwareInput, or one that does and reports true or false
FIPSKinds == {"plain", "capable", "incapable"}
ErrNotFIPS == "running a FIPS-capable distribution but input is not FIPS capable"

\* FIPSAwareInput.IsFIPSCapable of a type that implements the interface
Reports(kind) == kind = "capable"

\* managedInput.IsFIPSCapable that takes an input that does not declare
\* the capability as not capable
IsFIPSCapable_DefaultFalse(kind) ==
    IF kind # "plain" THEN Reports(kind) ELSE FALSE

\* managedInput.IsFIPSCapable for a wrapped input of the given kind
IsFIPSCapable(kind) ==
    IF kind # "plain" THEN Reports(kind) ELSE TRUE

\* checkFIPSCapability for a runner of the given kind
checkFIPSCapability(kind) ==
    IF kind = "plain" THEN NoErr
    ELSE IF Reports(kind) THEN NoErr
    ELSE ErrNotFIPS

\* values of status.Status and messages UpdateStatus is called with
Statuses == {"Starting", "Running", "Degraded", "Failed"}
Messages == {"", "m"}

\* the goroutines that call the registry, and a nil ProviderBuilder
Callers == {"g1", "g2"}
NilBuilder == "nil"

\* provider names and ProviderBuilders the registry is called with
RegNames == {"", "docker", "Docker"}
Builders == {"p1", "p2"}

\* the errors of AddProvider
ErrNameRequired == "provider name is required"
ErrRegistered == "provider is already registered"
ErrNilFactory == "provider cannot be registered with a nil factory"

\* strings.ToLower on the provider names
ToLower(name) == IF name = "Docker" THEN "docker" ELSE name

\* r.providers[name]: the zero value, nil, for a key that is not in the map
Lookup(providers, name) ==
    IF name \in DOMAIN providers THEN providers[name] ELSE NilBuilder

\* ------------------------------------------------------------------------
\* decode_csv_fields: values of event fields, the CSV reader, and
\* decodeCSVField.  A string is a sequence of characters; the keys of the
\* event are flat, so that GetValue fails for a missing key only and
\* PutValue does not fail.
\* ------------------------------------------------------------------------
EventKeys == {"m", "n", "d"}

Missing == [type |-> "missing", val |-> <<>>]
Number == [type |-> "number", val |-> <<>>]
Str(chars) == [type |-> "string", val |-> <<chars>>]
Array(record) == [type |-> "array", val |-> record]

\* the configured mappings of source to destination fields
FieldSets == {{<<"m", "d">>, <<"n", "n">>}, {<<"m", "m">>, <<"n", "d">>}}

\* the errors of decodeCSVField
ErrFetch == "could not fetch value for field"
ErrNotString == "field is not of string type"
ErrDecode == "error decoding CSV from field"
ErrTargetExists == "target field already has a value"

\* reader.TrimLeadingSpace: the leading spaces of a field are dropped
RECURSIVE TrimLeading(_)
TrimLeading(field) ==
    IF field # <<>> /\ Head(field) = " " THEN TrimLeading(Tail(field))
    ELSE field

\* the fields of one line of text, split at the separator
RECURSIVE SplitLine(_, _)
SplitLine(chars, sep) ==
    IF \A j \in 1..Len(chars) : chars[j] # sep THEN <<chars>>
    ELSE LET j == CHOOSE x \in 1..Len(chars) :
                      /\ chars[x] = sep
                      /\ \A y \in 1..(x - 1) : chars[y] # sep
         IN  <<SubSeq(chars, 1, j - 1)>>
                 \o SplitLine(SubSeq(chars, j + 1, Len(chars)), sep)

\* reader.Read on the text: io.EOF for an empty text, the record otherwise
ReadRecord(chars, sep, trim) ==
    IF chars = <<>> THEN [err |-> ErrDecode, record |-> <<>>]
    ELSE LET fields == SplitLine(chars, sep) IN
         [err |-> NoErr,
          record |-> [j \in 1..Len(fields) |->
                         IF trim THEN TrimLeading(fields[j]) ELSE fields[j]]]

\* decodeCSVFields.decodeCSVField: the error it returns and the event as
\* it leaves it
decodeCSVField(src, dest, event, cfg) ==
    LET data == event[src] IN
    IF data = Missing
    THEN [err |-> IF cfg.IgnoreMissing THEN NoErr ELSE ErrFetch, event |-> event]
    ELSE IF data.type # "string"
    THEN [err |-> ErrNotString, event |-> event]
    ELSE LET r == ReadRecord(data.val[1], cfg.separator, cfg.TrimLeadingSpace) IN
         IF r.err # NoErr
         THEN [err |-> ErrDecode, event |-> event]
         ELSE IF src # dest /\ ~cfg.OverwriteKeys /\ event[dest] # Missing
         THEN [err |-> ErrTargetExists, event |-> event]
         ELSE [err |-> NoErr,
               event |-> [event EXCEPT ![dest] = Array(r.record)]]

\* private payloads of events: nil, a value of another type, or an *updateOp
NilPrivate == [type |-> "nil", op |-> 0]
OtherPrivate == [type |-> "other", op |-> 0]
UpdateOpPrivate(id) == [type |-> "updateOp", op |-> id]

VARIABLES
    sources,       \* per input: inp.sources, as the workers that serve them
    inputState,    \* per input: "Created", "Running", "Done"
    parentCancel,  \* per input: the host's cancellation signal has fired
    childCancel,   \* per input: cancelCtx of Run has been cancelled by cancel()
    pc,            \* per worker: position in the worker goroutine
    err,           \* per worker: the named result err of runSource
    errs,          \* per input: errors collected by the MultiErrGroup
    result,        \* per input: what Run returned
    holder,        \* per key: lock state of the resource, Free or the holding worker
    committed,     \* per key: committed checkpoint (0 is the empty checkpoint)
    ttl,           \* per key: TTL of the resource
    lastPos,       \* per worker: checkpoint handed to the source by its Cursor
    ops,           \* UpdateOps staged so far: id -> [w, key]
    applied,       \* UpdateOps on which Execute has been called
    queue,         \* events in the pipeline awaiting confirmation
    confirmed,     \* UpdateOps reported in a confirmation batch
    lastAck,       \* the last confirmation batch and what the handler did
    epoch,         \* number of process terminations so far
    atCrash,       \* per key: committed checkpoint at the last termination
    resources,     \* the keys that have a resource in the store
    age,           \* per key: time since the resource was last touched
    test,          \* per input: progress and result of managedInput.Test
    call,          \* a call of createSourceID or of a FIPS capability check
    status,        \* a Context: its StatusReporter and the calls of UpdateStatus
    reg,           \* the autodiscover registry and the callers of its methods
    csv            \* a decode_csv_fields processor and the event it runs on

vars == <<sources, inputState, parentCancel, childCancel, pc, err, errs, result,
          holder, committed, ttl, lastPos, ops, applied, queue, confirmed,
          lastAck, epoch, atCrash, resources, age, test, call, status, reg,
          csv>>

orchVars == <<sources, inputState, parentCancel, childCancel, errs, result>>
storeVars == <<holder, committed, ttl>>
pipeVars == <<ops, applied, queue, confirmed, lastAck>>
crashVars == <<epoch, atCrash>>
reapVars == <<resources, age>>
libVars == <<status, reg, csv>>
hostVars == <<test, call, libVars>>

NoAck == [len |-> 0, executed |-> 0, n |-> 0]
NoResult == [returned |-> FALSE, failed |-> FALSE, id |-> "", joined |-> {}]
\* Test of an input: not called; pending are the goroutines of grp that
\* have not returned, tested the sources with what input.Test did, errs the
\* errors grp has collected, out what Test returned
NoTest == [state |-> "none", pending |-> {}, tested |-> {}, errs |-> {},
           out |-> [returned |-> FALSE, failed |-> FALSE, msg |-> "",
                    joined |-> {}]]
NoCall == [fn |-> "none", Type |-> "", userID |-> "", name |-> "", kind |-> "",
           out |-> ""]

\* a Context without a StatusReporter on which UpdateStatus was not called
NoStatus == [reporter |-> "nil", calls |-> <<>>, forwarded |-> <<>>,
             panicked |-> FALSE]

\* a registry without providers; no goroutine calls it
NoReg == [providers |-> <<>>,
          pcg |-> [g \in Callers |->
                     [at |-> "idle", fn |-> "", name |-> "", provider |-> NilBuilder,
                      out |-> ""]]]

\* no processor
NoCsv == [state |-> "none"]

\* ctx.Cancelation of the workers of input i: the child of the host's signal
Cancelled(i) == parentCancel[i] \/ childCancel[i]

\* the inputs after construction, for a given configuration of the sources,
\* with an empty store and an empty pipeline
InitInputs(srcs) ==
    /\ sources = srcs
    /\ inputState = [i \in Inputs |-> "Created"]
    /\ parentCancel = [i \in Inputs |-> FALSE]
    /\ childCancel = [i \in Inputs |-> FALSE]
    /\ pc = [w \in Workers |-> "idle"]
    /\ err = [w \in Workers |-> NoErr]
    /\ errs = [i \in Inputs |-> {}]
    /\ result = [i \in Inputs |-> NoResult]
    /\ holder = [k \in Keys |-> Free]
    /\ committed = [k \in Keys |-> 0]
    /\ ttl = [k \in Keys |-> 0]
    /\ lastPos = [w \in Workers |-> -1]
    /\ ops = <<>>
    /\ applied = {}
    /\ queue = <<>>
    /\ confirmed = {}
    /\ lastAck = NoAck
    /\ epoch = 0
    /\ atCrash = [k \in Keys |-> 0]
    /\ resources = {}
    /\ age = [k \in Keys |-> 0]
    /\ test = [i \in Inputs |-> NoTest]
    /\ call = NoCall

\* the state after construction, for a given configuration of the sources
InitWith(srcs) ==
    /\ InitInputs(srcs)
    /\ status = NoStatus
    /\ reg = NoReg
    /\ csv = NoCsv

\* in1 reads the sources a and b, in2 reads the source a
Init == InitWith([i \in Inputs |-> WorkersOf(i) \ {"w4"}])

\* in1 and in2 both read the source a only
InitShared == InitWith([i \in Inputs |-> WorkersOf(i) \ {"w2", "w4"}])

\* the kinds of private payload an event carries
Kinds == {"nil", "other", "updateOp"}

\* the number of UpdateOps among the first j events of kinds ks
RECURSIVE CountOps(_, _)
CountOps(ks, j) ==
    IF j = 0 THEN 0
    ELSE CountOps(ks, j - 1) + (IF ks[j] = "updateOp" THEN 1 ELSE 0)

\* the worker of source a of in1 holds its resource and collects; it has
\* published n events of the kinds ks, none of them confirmed yet, the
\* UpdateOps staged in the order of the events
InitBatch ==
    \E n \in 0..MaxBatch : \E ks \in [1..n -> Kinds] :
        /\ sources = [i \in Inputs |-> IF i = "in1" THEN {"w1"} ELSE {}]
        /\ inputState = [i \in Inputs |-> IF i = "in1" THEN "Running" ELSE "Created"]
        /\ parentCancel = [i \in Inputs |-> FALSE]
        /\ childCancel = [i \in Inputs |-> FALSE]
        /\ pc = [w \in Workers |-> IF w = "w1" THEN "running" ELSE "idle"]
        /\ err = [w \in Workers |-> NoErr]
        /\ errs = [i \in Inputs |-> {}]
        /\ result = [i \in Inputs |-> NoResult]
        /\ holder = [k \in Keys |-> IF k = KeyOf("w1") THEN "w1" ELSE Free]
        /\ committed = [k \in Keys |-> 0]
        /\ ttl = [k \in Keys |-> IF k = KeyOf("w1") THEN CleanTimeout("in1") ELSE 0]
        /\ lastPos = [w \in Workers |-> IF w = "w1" THEN 0 ELSE -1]
        /\ ops = [o \in 1..CountOps(ks, n) |-> [w |-> "w1", key |-> KeyOf("w1")]]
        /\ applied = {}
        /\ queue = [j \in 1..n |->
                       [client |-> "w1",
                        private |-> IF ks[j] = "nil" THEN NilPrivate
                                    ELSE IF ks[j] = "other" THEN OtherPrivate
                                    ELSE UpdateOpPrivate(CountOps(ks, j))]]
        /\ confirmed = {}
        /\ lastAck = NoAck
        /\ epoch = 0
        /\ atCrash = [k \in Keys |-> 0]
        /\ resources = {KeyOf("w1")}
        /\ age = [k \in Keys |-> 0]
        /\ test = [i \in Inputs |-> NoTest]
        /\ call = NoCall
        /\ status = NoStatus
        /\ reg = NoReg
        /\ csv = NoCsv

\* in1 and in2 both read the source a; the store holds the resource of a as
\* an earlier run left it: unlocked, with a committed checkpoint and the
\* clean timeout of in1, last touched some time ago
InitReap ==
    \E a \in 0..MaxAge :
        /\ sources = [i \in Inputs |-> WorkersOf(i) \ {"w2", "w4"}]
        /\ inputState = [i \in Inputs |-> "Created"]
        /\ parentCancel = [i \in Inputs |-> FALSE]
        /\ childCancel = [i \in Inputs |-> FALSE]
        /\ pc = [w \in Workers |-> "idle"]
        /\ err = [w \in Workers |-> NoErr]
        /\ errs = [i \in Inputs |-> {}]
        /\ result = [i \in Inputs |-> NoResult]
        /\ holder = [k \in Keys |-> Free]
        /\ committed = [k \in Keys |-> IF k = KeyOf("w1") THEN 1 ELSE 0]
        /\ ttl = [k \in Keys |-> IF k = KeyOf("w1") THEN CleanTimeout("in1") ELSE 0]
        /\ lastPos = [w \in Workers |-> -1]
        /\ ops = <<[w |-> "w1", key |-> KeyOf("w1")]>>
        /\ applied = {1}
        /\ queue = <<>>
        /\ confirmed = {1}
        /\ lastAck = NoAck
        /\ epoch = 0
        /\ atCrash = [k \in Keys |-> 0]
        /\ resources = {KeyOf("w1")}
        /\ age = [k \in Keys |-> IF k = KeyOf("w1") THEN a ELSE 0]
        /\ test = [i \in Inputs |-> NoTest]
        /\ call = NoCall
        /\ status = NoStatus
        /\ reg = NoReg
        /\ csv = NoCsv

\* nothing runs; a call of one of the pure functions is about to be made
\* with a manager type, a user ID, a source name and an input kind
InitCall ==
    \E t \in Types, u \in UserIDs, n \in Names, k \in FIPSKinds :
        /\ sources = [i \in Inputs |-> WorkersOf(i) \ {"w4"}]
        /\ inputState = [i \in Inputs |-> "Created"]
        /\ parentCancel = [i \in Inputs |-> FALSE]
        /\ childCancel = [i \in Inputs |-> FALSE]
        /\ pc = [w \in Workers |-> "idle"]
        /\ err = [w \in Workers |-> NoErr]
        /\ errs = [i \in Inputs |-> {}]
        /\ result = [i \in Inputs |-> NoResult]
        /\ holder = [r \in Keys |-> Free]
        /\ committed = [r \in Keys |-> 0]
        /\ ttl = [r \in Keys |-> 0]
        /\ lastPos = [w \in Workers |-> -1]
        /\ ops = <<>>
        /\ applied = {}
        /\ queue = <<>>
        /\ confirmed = {}
        /\ lastAck = NoAck
        /\ epoch = 0
        /\ atCrash = [r \in Keys |-> 0]
        /\ resources = {}
        /\ age = [r \in Keys |-> 0]
        /\ test = [i \in Inputs |-> NoTest]
        /\ call = [NoCall EXCEPT !.Type = t, !.userID = u, !.name = n, !.kind = k]
        /\ status = NoStatus
        /\ reg = NoReg
        /\ csv = NoCsv

\* nothing runs; a Context with or without a StatusReporter
InitStatus ==
    /\ InitInputs([i \in Inputs |-> WorkersOf(i) \ {"w4"}])
    /\ \E r \in {"nil", "set"} : status = [NoStatus EXCEPT !.reporter = r]
    /\ reg = NoReg
    /\ csv = NoCsv

\* nothing runs; a new registry
InitRegistry ==
    /\ InitInputs([i \in Inputs |-> WorkersOf(i) \ {"w4"}])
    /\ status = NoStatus
    /\ reg = NoReg
    /\ csv = NoCsv

\* the events the processor is run on; the texts of their fields are
\* "a,b", "a, b", "x" and the empty string
Events ==
    {[k \in EventKeys |-> IF k = "m" THEN m ELSE IF k = "n" THEN n ELSE d] :
        m \in {Str(<<"a", ",", "b">>), Str(<<"a", ",", " ", "b">>), Missing},
        n \in {Str(<<"x">>), Str(<<>>), Number, Missing},
        d \in {Missing, Str(<<"x">>)}}

\* nothing runs; a decode_csv_fields processor with some configuration is
\* about to be run on some event
InitCSV ==
    /\ InitInputs([i \in Inputs |-> WorkersOf(i) \ {"w4"}])
    /\ status = NoStatus
    /\ reg = NoReg
    /\ \E f \in FieldSets, foe \in BOOLEAN, im \in BOOLEAN, ow \in BOOLEAN,
          tr \in BOOLEAN, e \in Events :
          csv = [state |-> "ready",
                 cfg |-> [fields |-> f, FailOnError |-> foe,
                          IgnoreMissing |-> im, OverwriteKeys |-> ow,
                          TrimLeadingSpace |-> tr, separator |-> ","],
                 event |-> e, entry |-> e, saved |-> e, todo |-> {},
                 log |-> {}, out |-> [event |-> e, err |-> NoErr]]

\* in1 reads the three sources a, b and c, in2 has no source
InitThree == InitWith([i \in Inputs |-> IF i = "in1" THEN WorkersOf(i) ELSE {}])

\* ------------------------------------------------------------------------
\* managedInput.Run
\* ------------------------------------------------------------------------
\* Run derives cancelCtx and starts one goroutine per configured source.
RunStart(i) ==
    /\ inputState[i] = "Created"
    /\ inputState' = [inputState EXCEPT ![i] = "Running"]
    /\ pc' = [w \in Workers |-> IF w \in sources[i] THEN "connect" ELSE pc[w]]
    /\ UNCHANGED <<sources, parentCancel, childCancel, err, errs, result, lastPos>>
    /\ UNCHANGED <<storeVars, pipeVars, crashVars>>
    /\ UNCHANGED <<reapVars, hostVars>>

\* the host cancels the input-level signal
ExternalCancel(i) ==
    /\ inputState[i] = "Running"
    /\ ~parentCancel[i]
    /\ parentCancel' = [parentCancel EXCEPT ![i] = TRUE]
    /\ UNCHANGED <<sources, inputState, childCancel, pc, err, errs, result, lastPos>>
    /\ UNCHANGED <<storeVars, pipeVars, crashVars>>
    /\ UNCHANGED <<reapVars, hostVars>>

\* ------------------------------------------------------------------------
\* managedInput.runSource
\* ------------------------------------------------------------------------
\* runSource without the deferred recover
recoverPanic_Missing(e) ==
    [err |-> e, escapes |-> e = PanicValue]

\* the deferred function of runSource: a panic value v is recovered and
\* becomes the error of the worker, any other result e is left alone.
\* A panic that is not recovered leaves the goroutine and ends the process.
recoverPanic(e) ==
    IF e = PanicValue THEN [err |-> ErrPanic, escapes |-> FALSE]
    ELSE [err |-> e, escapes |-> FALSE]

\* Connect with a runSource that goes on to lock the resource although
\* ConnectWith returned an error
Connect_IgnoreError(w, outcome) ==
    /\ pc[w] = "connect"
    /\ outcome \in {NoErr, ErrConnect, PanicValue}
    /\ LET r == recoverPanic(outcome) IN
        /\ err' = [err EXCEPT ![w] = r.err]
        /\ pc' = [pc EXCEPT ![w] =
                     IF r.err = ErrPanic THEN "ret" ELSE "lock"]
    /\ UNCHANGED <<orchVars, lastPos, storeVars, pipeVars, crashVars>>
    /\ UNCHANGED <<reapVars, hostVars>>

\* pipeline.ConnectWith: success, an error, or a panic.  Nothing but the
\* recover is deferred yet.
Connect(w, outcome) ==
    /\ pc[w] = "connect"
    /\ outcome \in {NoErr, ErrConnect, PanicValue}
    /\ LET r == recoverPanic(outcome) IN
        /\ err' = [err EXCEPT ![w] = r.err]
        /\ pc' = [pc EXCEPT ![w] =
                     IF r.escapes THEN "crashed"
                     ELSE IF r.err = NoErr THEN "lock" ELSE "ret"]
    /\ UNCHANGED <<orchVars, lastPos, storeVars, pipeVars, crashVars>>
    /\ UNCHANGED <<reapVars, hostVars>>

\* Lock that does not wait for the holder of the resource
Lock_NoWait(w) ==
    /\ pc[w] = "lock"
    /\ holder' = [holder EXCEPT ![KeyOf(w)] = w]
    /\ resources' = resources \cup {KeyOf(w)}
    /\ age' = [age EXCEPT ![KeyOf(w)] = 0]
    /\ pc' = [pc EXCEPT ![w] = "locked"]
    /\ UNCHANGED <<orchVars, err, lastPos, committed, ttl, pipeVars, crashVars>>
    /\ UNCHANGED hostVars

\* Lock(ctx, key) succeeds: the resource is free and becomes held.  The
\* first reference to a key creates its resource; the lock refreshes the
\* last-touched time.
Lock(w) ==
    /\ pc[w] = "lock"
    /\ holder[KeyOf(w)] = Free
    /\ holder' = [holder EXCEPT ![KeyOf(w)] = w]
    /\ resources' = resources \cup {KeyOf(w)}
    /\ age' = [age EXCEPT ![KeyOf(w)] = 0]
    /\ pc' = [pc EXCEPT ![w] = "locked"]
    /\ UNCHANGED <<orchVars, err, lastPos, committed, ttl, pipeVars, crashVars>>
    /\ UNCHANGED hostVars

\* runSourceLockFailed with lock called on a context that the input's signal
\* does not cancel: Lock never fails
runSourceLockFailed_BackgroundCtx(w) ==
    /\ pc[w] = "lock"
    /\ FALSE
    /\ UNCHANGED vars

\* runSourceLockFailed with releaseResource deferred before the error of Lock
\* is checked
runSourceLockFailed_ReleaseDeferred(w) ==
    /\ pc[w] = "lock"
    /\ Cancelled(InputOf(w))
    /\ err' = [err EXCEPT ![w] = ErrCancelled]
    /\ pc' = [pc EXCEPT ![w] = "release"]
    /\ UNCHANGED <<orchVars, lastPos, storeVars, pipeVars, crashVars>>
    /\ UNCHANGED <<reapVars, hostVars>>

\* Lock(ctx, key) fails with a cancellation error; runSource returns it and
\* only the deferred client.Close runs.
runSourceLockFailed(w) ==
    /\ pc[w] = "lock"
    /\ Cancelled(InputOf(w))
    /\ err' = [err EXCEPT ![w] = ErrCancelled]
    /\ pc' = [pc EXCEPT ![w] = "ret"]
    /\ UNCHANGED <<orchVars, lastPos, storeVars, pipeVars, crashVars>>
    /\ UNCHANGED <<reapVars, hostVars>>

\* runSourceStart with releaseResource called at once instead of deferred
runSourceStart_NoDefer(w) ==
    /\ pc[w] = "locked"
    /\ holder' = [holder EXCEPT ![KeyOf(w)] = Free]
    /\ ttl' = [ttl EXCEPT ![KeyOf(w)] = CleanTimeout(InputOf(w))]
    /\ lastPos' = [lastPos EXCEPT ![w] = committed[KeyOf(w)]]
    /\ pc' = [pc EXCEPT ![w] = "running"]
    /\ UNCHANGED <<orchVars, err, committed, pipeVars, crashVars>>
    /\ UNCHANGED <<reapVars, hostVars>>

\* runSourceStart with a Cursor that is not made from the locked resource and
\* starts from the empty checkpoint
runSourceStart_EmptyCursor(w) ==
    /\ pc[w] = "locked"
    /\ ttl' = [ttl EXCEPT ![KeyOf(w)] = CleanTimeout(InputOf(w))]
    /\ lastPos' = [lastPos EXCEPT ![w] = 0]
    /\ pc' = [pc EXCEPT ![w] = "running"]
    /\ UNCHANGED <<orchVars, err, holder, committed, pipeVars, crashVars>>
    /\ UNCHANGED <<reapVars, hostVars>>

\* runSourceStart without the call of store.UpdateTTL
runSourceStart_NoTTL(w) ==
    /\ pc[w] = "locked"
    /\ lastPos' = [lastPos EXCEPT ![w] = committed[KeyOf(w)]]
    /\ pc' = [pc EXCEPT ![w] = "running"]
    /\ UNCHANGED <<orchVars, err, storeVars, pipeVars, crashVars>>
    /\ UNCHANGED <<reapVars, hostVars>>

\* store.UpdateTTL, makeCursor, the cursorPublisher, and inp.input.Run is
\* entered; the source reads the Cursor's last position.
runSourceStart(w) ==
    /\ pc[w] = "locked"
    /\ ttl' = [ttl EXCEPT ![KeyOf(w)] = CleanTimeout(InputOf(w))]
    /\ lastPos' = [lastPos EXCEPT ![w] = committed[KeyOf(w)]]
    /\ pc' = [pc EXCEPT ![w] = "running"]
    /\ UNCHANGED <<orchVars, err, holder, committed, pipeVars, crashVars>>
    /\ UNCHANGED <<reapVars, hostVars>>

\* PublishUpdate with a Cursor that applies the update itself when staging
PublishUpdate_CommitOnStage(w) ==
    /\ pc[w] = "running"
    /\ Len(ops) < MaxOps
    /\ Len(queue) < MaxQueue
    /\ LET id == Len(ops) + 1 IN
        /\ ops' = Append(ops, [w |-> w, key |-> KeyOf(w)])
        /\ queue' = Append(queue, [client |-> w, private |-> UpdateOpPrivate(id)])
        /\ committed' = [committed EXCEPT ![KeyOf(w)] = id]
    /\ UNCHANGED <<orchVars, pc, err, lastPos, holder, ttl, applied, confirmed,
                   lastAck, crashVars>>
    /\ UNCHANGED <<reapVars, hostVars>>

\* the source publishes an event together with a cursor update: Stage
\* allocates the UpdateOp, the event carries it as private payload.
PublishUpdate(w) ==
    /\ pc[w] = "running"
    /\ Len(ops) < MaxOps
    /\ Len(queue) < MaxQueue
    /\ LET id == Len(ops) + 1 IN
        /\ ops' = Append(ops, [w |-> w, key |-> KeyOf(w)])
        /\ queue' = Append(queue, [client |-> w, private |-> UpdateOpPrivate(id)])
    /\ UNCHANGED <<orchVars, pc, err, lastPos, storeVars, applied, confirmed,
                   lastAck, crashVars>>
    /\ UNCHANGED <<reapVars, hostVars>>

\* the source publishes an event that carries no cursor update
PublishPlain(w, p) ==
    /\ pc[w] = "running"
    /\ Len(queue) < MaxQueue
    /\ p \in {NilPrivate, OtherPrivate}
    /\ queue' = Append(queue, [client |-> w, private |-> p])
    /\ UNCHANGED <<orchVars, pc, err, lastPos, storeVars, ops, applied,
                   confirmed, lastAck, crashVars>>
    /\ UNCHANGED <<reapVars, hostVars>>

\* SourceEnd with releaseResource called after Run instead of deferred: a
\* panic skips it
SourceEnd_NoReleaseOnPanic(w, e) ==
    /\ pc[w] = "running"
    /\ e \in {NoErr, ErrFatal, PanicValue}
    /\ err' = [err EXCEPT ![w] = IF e = PanicValue THEN ErrPanic ELSE e]
    /\ pc' = [pc EXCEPT ![w] = IF e = PanicValue THEN "ret" ELSE "release"]
    /\ UNCHANGED <<orchVars, lastPos, storeVars, pipeVars, crashVars>>
    /\ UNCHANGED <<reapVars, hostVars>>

\* inp.input.Run returns nil or a fatal error, or panics; the deferred
\* releaseResource is still to run.
SourceEnd(w, e) ==
    /\ pc[w] = "running"
    /\ e \in {NoErr, ErrFatal, PanicValue}
    /\ err' = [err EXCEPT ![w] = e]
    /\ pc' = [pc EXCEPT ![w] = "release"]
    /\ UNCHANGED <<orchVars, lastPos, storeVars, pipeVars, crashVars>>
    /\ UNCHANGED <<reapVars, hostVars>>

\* Release without the deferred releaseResource: the lock stays held
Release_Leak(w) ==
    /\ pc[w] = "release"
    /\ LET r == recoverPanic(err[w]) IN
        /\ err' = [err EXCEPT ![w] = r.err]
        /\ pc' = [pc EXCEPT ![w] = IF r.escapes THEN "crashed" ELSE "ret"]
    /\ UNCHANGED <<orchVars, lastPos, storeVars, pipeVars, crashVars>>
    /\ UNCHANGED <<reapVars, hostVars>>

\* the deferred calls of runSource in their order: releaseResource(resource),
\* client.Close(), and the function that recovers a panic
Release(w) ==
    /\ pc[w] = "release"
    /\ holder' = [holder EXCEPT ![KeyOf(w)] = Free]
    /\ LET r == recoverPanic(err[w]) IN
        /\ err' = [err EXCEPT ![w] = r.err]
        /\ pc' = [pc EXCEPT ![w] = IF r.escapes THEN "crashed" ELSE "ret"]
    /\ UNCHANGED <<orchVars, lastPos, committed, ttl, pipeVars, crashVars>>
    /\ UNCHANGED <<reapVars, hostVars>>

\* ------------------------------------------------------------------------
\* the goroutine of managedInput.Run around runSource
\* ------------------------------------------------------------------------
\* the goroutine without the call of cancel()
GoCancel_Missing(w) ==
    /\ pc[w] = "ret"
    /\ pc' = [pc EXCEPT ![w] = "exit"]
    /\ UNCHANGED <<orchVars, err, lastPos, storeVars, pipeVars, crashVars>>
    /\ UNCHANGED <<reapVars, hostVars>>

\* GoCancel with cancel() called whenever runSource returns
GoCancel_Always(w) ==
    /\ pc[w] = "ret"
    /\ childCancel' = [childCancel EXCEPT ![InputOf(w)] = TRUE]
    /\ pc' = [pc EXCEPT ![w] = "exit"]
    /\ UNCHANGED <<sources, inputState, parentCancel, err, errs, result, lastPos>>
    /\ UNCHANGED <<storeVars, pipeVars, crashVars>>
    /\ UNCHANGED <<reapVars, hostVars>>

\* GoCancel with a signal that the inputs share: the cancel() of a failed
\* worker reaches the workers of every input
GoCancel_AllInputs(w) ==
    /\ pc[w] = "ret"
    /\ childCancel' = [i \in Inputs |->
                          IF err[w] # NoErr THEN TRUE ELSE childCancel[i]]
    /\ pc' = [pc EXCEPT ![w] = "exit"]
    /\ UNCHANGED <<sources, inputState, parentCancel, err, errs, result, lastPos>>
    /\ UNCHANGED <<storeVars, pipeVars, crashVars>>
    /\ UNCHANGED <<reapVars, hostVars>>

\* GoCancel with a goroutine that calls runSource again when it failed
GoCancel_Retry(w) ==
    /\ pc[w] = "ret"
    /\ pc' = [pc EXCEPT ![w] = IF err[w] # NoErr THEN "connect" ELSE "exit"]
    /\ err' = [err EXCEPT ![w] = NoErr]
    /\ UNCHANGED <<sources, inputState, parentCancel, childCancel, errs, result,
                   lastPos>>
    /\ UNCHANGED <<storeVars, pipeVars, crashVars>>
    /\ UNCHANGED <<reapVars, hostVars>>

\* if err = runSource(...); err != nil { cancel() }: client.Close has run,
\* runSource has returned, a non-nil error cancels the shared signal
GoCancel(w) ==
    /\ pc[w] = "ret"
    /\ childCancel' = [childCancel EXCEPT ![InputOf(w)] =
                          IF err[w] # NoErr THEN TRUE ELSE @]
    /\ pc' = [pc EXCEPT ![w] = "exit"]
    /\ UNCHANGED <<sources, inputState, parentCancel, err, errs, result, lastPos>>
    /\ UNCHANGED <<storeVars, pipeVars, crashVars>>
    /\ UNCHANGED <<reapVars, hostVars>>

\* return err: the goroutine ends and the MultiErrGroup collects its
\* non-nil error
GoReturn(w) ==
    /\ pc[w] = "exit"
    /\ errs' = [errs EXCEPT ![InputOf(w)] =
                   IF err[w] # NoErr THEN @ \cup {<<w, err[w]>>} ELSE @]
    /\ pc' = [pc EXCEPT ![w] = "finished"]
    /\ UNCHANGED <<sources, inputState, parentCancel, childCancel, err, result,
                   lastPos>>
    /\ UNCHANGED <<storeVars, pipeVars, crashVars>>
    /\ UNCHANGED <<reapVars, hostVars>>

\* Run returning as soon as one worker has failed, like an errgroup
RunReturn_FirstFailure(i) ==
    /\ inputState[i] = "Running"
    /\ \/ \A w \in sources[i] : pc[w] = "finished"
       \/ \E w \in sources[i] : pc[w] = "finished" /\ err[w] # NoErr
    /\ result' = [result EXCEPT ![i] =
                     IF errs[i] # {}
                     THEN [returned |-> TRUE, failed |-> TRUE, id |-> i,
                           joined |-> errs[i]]
                     ELSE [returned |-> TRUE, failed |-> FALSE, id |-> "",
                           joined |-> {}]]
    /\ childCancel' = [childCancel EXCEPT ![i] = TRUE]
    /\ inputState' = [inputState EXCEPT ![i] = "Done"]
    /\ UNCHANGED <<sources, parentCancel, pc, err, errs, lastPos>>
    /\ UNCHANGED <<storeVars, pipeVars, crashVars>>
    /\ UNCHANGED <<reapVars, hostVars>>

\* Run reporting one of the collected errors only
RunReturn_OneError(i) ==
    /\ inputState[i] = "Running"
    /\ \A w \in sources[i] : pc[w] = "finished"
    /\ result' = [result EXCEPT ![i] =
                     IF errs[i] # {}
                     THEN [returned |-> TRUE, failed |-> TRUE, id |-> i,
                           joined |-> {CHOOSE e \in errs[i] : TRUE}]
                     ELSE [returned |-> TRUE, failed |-> FALSE, id |-> "",
                           joined |-> {}]]
    /\ childCancel' = [childCancel EXCEPT ![i] = TRUE]
    /\ inputState' = [inputState EXCEPT ![i] = "Done"]
    /\ UNCHANGED <<sources, parentCancel, pc, err, errs, lastPos>>
    /\ UNCHANGED <<storeVars, pipeVars, crashVars>>
    /\ UNCHANGED <<reapVars, hostVars>>

\* grp.Wait() returned: Run joins the errors, the deferred cancel() runs.
RunReturn(i) ==
    /\ inputState[i] = "Running"
    /\ \A w \in sources[i] : pc[w] = "finished"
    /\ result' = [result EXCEPT ![i] =
                     IF errs[i] # {}
                     THEN [returned |-> TRUE, failed |-> TRUE, id |-> i,
                           joined |-> errs[i]]
                     ELSE [returned |-> TRUE, failed |-> FALSE, id |-> "",
                           joined |-> {}]]
    /\ childCancel' = [childCancel EXCEPT ![i] = TRUE]
    /\ inputState' = [inputState EXCEPT ![i] = "Done"]
    /\ UNCHANGED <<sources, parentCancel, pc, err, errs, lastPos>>
    /\ UNCHANGED <<storeVars, pipeVars, crashVars>>
    /\ UNCHANGED <<reapVars, hostVars>>

\* ------------------------------------------------------------------------
\* newInputACKHandler
\* ------------------------------------------------------------------------
\* IsUpdateOp with the nil check only, without the type assertion
IsUpdateOp_NotNil(p) == p.type # "nil"

\* current != nil and current.(*updateOp) succeeds
IsUpdateOp(p) == p.type = "updateOp"

\* the loop of the handler with last set by the first UpdateOp only
RECURSIVE ackScan_First(_, _, _, _)
ackScan_First(private, i, n, last) ==
    IF i > Len(private) THEN [n |-> n, last |-> last]
    ELSE IF ~IsUpdateOp(private[i]) THEN ackScan_First(private, i + 1, n, last)
    ELSE ackScan_First(private, i + 1, n + 1, IF n = 0 THEN i ELSE last)

\* the loop of the handler over private[0..len-1], from index i on, with
\* the running values of n and last; indices are 1-based here
RECURSIVE ackScan(_, _, _, _)
ackScan(private, i, n, last) ==
    IF i > Len(private) THEN [n |-> n, last |-> last]
    ELSE IF ~IsUpdateOp(private[i]) THEN ackScan(private, i + 1, n, last)
    ELSE ackScan(private, i + 1, n + 1, i)

\* the handler calling Execute on the last entry of the batch
ackHandler_LastEntry(private) ==
    LET r == ackScan(private, 1, 0, 0) IN
    IF r.n = 0 THEN [executed |-> 0, n |-> 0]
    ELSE [executed |-> private[Len(private)].op, n |-> r.n]

\* the handler passing the number of acked events to Execute
ackHandler_PassAcked(private) ==
    LET r == ackScan(private, 1, 0, 0) IN
    IF r.n = 0 THEN [executed |-> 0, n |-> 0]
    ELSE [executed |-> private[r.last].op, n |-> Len(private)]

\* what the handler executes: 0 for nothing, else the id of the UpdateOp at
\* index last, together with the n it passes to Execute
ackHandler(private) ==
    LET r == ackScan(private, 1, 0, 0) IN
    IF r.n = 0 THEN [executed |-> 0, n |-> 0]
    ELSE [executed |-> private[r.last].op, n |-> r.n]

\* updateOp.Execute(n): commits the staged position of op to the store; the
\* UpdateOps of the same Cursor at or before it are thereby discarded
Execute(op, n) ==
    /\ committed' = [committed EXCEPT ![ops[op].key] = op]
    /\ applied' = applied \cup {op}

\* UpdateOps that are destroyed: applied, or staged on the same Cursor
\* before an applied one
Discarded ==
    {o \in 1..Len(ops) : \E a \in applied : ops[a].w = ops[o].w /\ o <= a}

\* the UpdateOps among the private payloads of a batch
OpsOf(private) ==
    {private[j].op : j \in {x \in 1..Len(private) : IsUpdateOp(private[x])}}

\* The pipeline confirms events in the order of their production.  One
\* confirmation covers the next m events of the queue, all published through
\* the same client, and calls the ACK handler of that client with their
\* private payloads.  Confirmations keep arriving after the worker that
\* published the events has released its resource and closed its client.
Ack(m) ==
    /\ m \in 1..Len(queue)
    /\ \A j \in 1..m : queue[j].client = queue[1].client
    /\ LET private == [j \in 1..m |-> queue[j].private]
           h == ackHandler(private)
       IN
        /\ lastAck' = [len |-> m, executed |-> h.executed, n |-> h.n]
        /\ confirmed' = confirmed \cup OpsOf(private)
        /\ IF h.executed = 0
           THEN UNCHANGED <<committed, applied>>
           ELSE Execute(h.executed, h.n)
    /\ queue' = SubSeq(queue, m + 1, Len(queue))
    /\ UNCHANGED <<orchVars, pc, err, lastPos, holder, ttl, ops, crashVars>>
    /\ UNCHANGED <<reapVars, hostVars>>

\* ------------------------------------------------------------------------
\* process termination and restart: goroutines, locks, cancellation signals
\* and events in flight are gone, the persisted checkpoints remain
\* ------------------------------------------------------------------------
Crash ==
    /\ epoch < MaxCrashes
    /\ epoch' = epoch + 1
    /\ atCrash' = committed
    /\ inputState' = [i \in Inputs |-> "Created"]
    /\ parentCancel' = [i \in Inputs |-> FALSE]
    /\ childCancel' = [i \in Inputs |-> FALSE]
    /\ pc' = [w \in Workers |-> "idle"]
    /\ err' = [w \in Workers |-> NoErr]
    /\ errs' = [i \in Inputs |-> {}]
    /\ result' = [i \in Inputs |-> NoResult]
    /\ holder' = [k \in Keys |-> Free]
    /\ lastPos' = [w \in Workers |-> -1]
    /\ queue' = <<>>
    /\ lastAck' = NoAck
    /\ UNCHANGED <<sources, committed, ttl, ops, applied, confirmed>>
    /\ UNCHANGED <<reapVars, hostVars>>

\* the host runs an input that is done once more: a new Run with a new
\* context and new goroutines; the store keeps its resources
Restart(i) ==
    /\ inputState[i] = "Done"
    /\ inputState' = [inputState EXCEPT ![i] = "Created"]
    /\ parentCancel' = [parentCancel EXCEPT ![i] = FALSE]
    /\ childCancel' = [childCancel EXCEPT ![i] = FALSE]
    /\ pc' = [w \in Workers |-> IF w \in sources[i] THEN "idle" ELSE pc[w]]
    /\ err' = [w \in Workers |-> IF w \in sources[i] THEN NoErr ELSE err[w]]
    /\ lastPos' = [w \in Workers |-> IF w \in sources[i] THEN -1 ELSE lastPos[w]]
    /\ errs' = [errs EXCEPT ![i] = {}]
    /\ result' = [result EXCEPT ![i] = NoResult]
    /\ UNCHANGED <<sources, storeVars, pipeVars, crashVars>>
    /\ UNCHANGED <<reapVars, hostVars>>

\* ------------------------------------------------------------------------
\* managedInput.Test
\* ------------------------------------------------------------------------
\* Test starts one goroutine of grp per configured source
TestStart(i) ==
    /\ test[i].state = "none"
    /\ test' = [test EXCEPT ![i] = [@ EXCEPT !.state = "testing",
                                             !.pending = sources[i]]]
    /\ UNCHANGED <<orchVars, pc, err, lastPos, storeVars, pipeVars, crashVars>>
    /\ UNCHANGED <<reapVars, call, libVars>>

\* testSource without the deferred recover: a panic of input.Test leaves
\* the goroutine and ends the process
testSource_NoRecover(w, outcome) ==
    /\ test[InputOf(w)].state = "testing"
    /\ w \in test[InputOf(w)].pending
    /\ outcome \in {NoErr, ErrInvalid, PanicValue}
    /\ test' = [test EXCEPT ![InputOf(w)] =
                   [@ EXCEPT !.state = IF outcome = PanicValue
                                       THEN "crashed" ELSE @,
                             !.pending = @ \ {w},
                             !.tested = @ \cup {<<w, outcome>>},
                             !.errs = IF outcome \notin {NoErr, PanicValue}
                                      THEN @ \cup {<<w, outcome>>} ELSE @]]
    /\ UNCHANGED <<orchVars, pc, err, lastPos, storeVars, pipeVars, crashVars>>
    /\ UNCHANGED <<reapVars, call, libVars>>

\* testSource that takes the lock of the source's resource for the test
testSource_Locks(w, outcome) ==
    /\ test[InputOf(w)].state = "testing"
    /\ w \in test[InputOf(w)].pending
    /\ outcome \in {NoErr, ErrInvalid, PanicValue}
    /\ holder[KeyOf(w)] = Free
    /\ holder' = [holder EXCEPT ![KeyOf(w)] = w]
    /\ LET r == recoverPanic(outcome) IN
        test' = [test EXCEPT ![InputOf(w)] =
                    [@ EXCEPT !.pending = @ \ {w},
                              !.tested = @ \cup {<<w, outcome>>},
                              !.errs = IF r.err # NoErr
                                       THEN @ \cup {<<w, r.err>>} ELSE @]]
    /\ UNCHANGED <<orchVars, pc, err, lastPos, committed, ttl, pipeVars, crashVars>>
    /\ UNCHANGED <<reapVars, call, libVars>>

\* testSource: inp.input.Test(source, ctx) returns nil or an error, or
\* panics; the deferred function turns a panic into the error of the
\* goroutine; grp collects a non-nil error
testSource(w, outcome) ==
    /\ test[InputOf(w)].state = "testing"
    /\ w \in test[InputOf(w)].pending
    /\ outcome \in {NoErr, ErrInvalid, PanicValue}
    /\ LET r == recoverPanic(outcome) IN
        test' = [test EXCEPT ![InputOf(w)] =
                    [@ EXCEPT !.pending = @ \ {w},
                              !.tested = @ \cup {<<w, outcome>>},
                              !.errs = IF r.err # NoErr
                                       THEN @ \cup {<<w, r.err>>} ELSE @]]
    /\ UNCHANGED <<orchVars, pc, err, lastPos, storeVars, pipeVars, crashVars>>
    /\ UNCHANGED <<reapVars, call, libVars>>

\* Test returning the first error of grp only
TestReturn_FirstError(i) ==
    /\ test[i].state = "testing"
    /\ test[i].pending = {}
    /\ test' = [test EXCEPT ![i] =
                   [@ EXCEPT !.state = "done",
                             !.out = IF test[i].errs # {}
                                     THEN [returned |-> TRUE, failed |-> TRUE,
                                           msg |-> "input tests failed",
                                           joined |-> {CHOOSE e \in test[i].errs : TRUE}]
                                     ELSE [returned |-> TRUE, failed |-> FALSE,
                                           msg |-> "", joined |-> {}]]]
    /\ UNCHANGED <<orchVars, pc, err, lastPos, storeVars, pipeVars, crashVars>>
    /\ UNCHANGED <<reapVars, call, libVars>>

\* errs := grp.Wait(): all goroutines have returned; the errors are joined
\* into "input tests failed: ...", or Test returns nil
TestReturn(i) ==
    /\ test[i].state = "testing"
    /\ test[i].pending = {}
    /\ test' = [test EXCEPT ![i] =
                   [@ EXCEPT !.state = "done",
                             !.out = IF test[i].errs # {}
                                     THEN [returned |-> TRUE, failed |-> TRUE,
                                           msg |-> "input tests failed",
                                           joined |-> test[i].errs]
                                     ELSE [returned |-> TRUE, failed |-> FALSE,
                                           msg |-> "", joined |-> {}]]]
    /\ UNCHANGED <<orchVars, pc, err, lastPos, storeVars, pipeVars, crashVars>>
    /\ UNCHANGED <<reapVars, call, libVars>>

\* ------------------------------------------------------------------------
\* Calls of the pure functions
\* ------------------------------------------------------------------------
\* inp.createSourceID(s) is called
CallCreateSourceID ==
    /\ call.fn = "none"
    /\ call' = [call EXCEPT !.fn = "createSourceID",
                            !.out = sourceID(call.Type, call.userID, call.name)]
    /\ UNCHANGED <<orchVars, pc, err, lastPos, storeVars, pipeVars, crashVars>>
    /\ UNCHANGED <<reapVars, test, libVars>>

\* inp.IsFIPSCapable() is called
CallIsFIPSCapable ==
    /\ call.fn = "none"
    /\ call' = [call EXCEPT !.fn = "IsFIPSCapable",
                            !.out = IF IsFIPSCapable(call.kind)
                                    THEN "true" ELSE "false"]
    /\ UNCHANGED <<orchVars, pc, err, lastPos, storeVars, pipeVars, crashVars>>
    /\ UNCHANGED <<reapVars, test, libVars>>

\* checkFIPSCapability(runner) is called
CallCheckFIPSCapability ==
    /\ call.fn = "none"
    /\ call' = [call EXCEPT !.fn = "checkFIPSCapability",
                            !.out = checkFIPSCapability(call.kind)]
    /\ UNCHANGED <<orchVars, pc, err, lastPos, storeVars, pipeVars, crashVars>>
    /\ UNCHANGED <<reapVars, test, libVars>>

\* ------------------------------------------------------------------------
\* Context.UpdateStatus
\* ------------------------------------------------------------------------
\* UpdateStatus without the nil check: the method of a nil interface value
\* is called, which panics
UpdateStatus_NoNilCheck(st, msg) ==
    /\ ~status.panicked
    /\ Len(status.calls) < MaxCalls
    /\ status' = [status EXCEPT
                     !.calls = Append(@, <<st, msg>>),
                     !.forwarded = IF status.reporter # "nil"
                                   THEN Append(@, <<st, msg>>) ELSE @,
                     !.panicked = status.reporter = "nil"]
    /\ UNCHANGED <<orchVars, pc, err, lastPos, storeVars, pipeVars, crashVars>>
    /\ UNCHANGED <<reapVars, test, call, reg, csv>>

\* c.UpdateStatus(status, msg): forwarded to c.StatusReporter if that is
\* not nil
UpdateStatus(st, msg) ==
    /\ ~status.panicked
    /\ Len(status.calls) < MaxCalls
    /\ status' = [status EXCEPT
                     !.calls = Append(@, <<st, msg>>),
                     !.forwarded = IF status.reporter # "nil"
                                   THEN Append(@, <<st, msg>>) ELSE @]
    /\ UNCHANGED <<orchVars, pc, err, lastPos, storeVars, pipeVars, crashVars>>
    /\ UNCHANGED <<reapVars, test, call, reg, csv>>

\* ------------------------------------------------------------------------
\* The autodiscover registry
\* ------------------------------------------------------------------------
\* goroutine g calls r.AddProvider(name, provider)
CallAddProvider(g, name, provider) ==
    /\ reg.pcg[g].at = "idle"
    /\ reg' = [reg EXCEPT !.pcg[g] =
                  [at |-> "called", fn |-> "AddProvider", name |-> name,
                   provider |-> provider, out |-> ""]]
    /\ UNCHANGED <<orchVars, pc, err, lastPos, storeVars, pipeVars, crashVars>>
    /\ UNCHANGED <<reapVars, test, call, status, csv>>

\* goroutine g calls r.GetProvider(name)
CallGetProvider(g, name) ==
    /\ reg.pcg[g].at = "idle"
    /\ reg' = [reg EXCEPT !.pcg[g] =
                  [at |-> "called", fn |-> "GetProvider", name |-> name,
                   provider |-> NilBuilder, out |-> ""]]
    /\ UNCHANGED <<orchVars, pc, err, lastPos, storeVars, pipeVars, crashVars>>
    /\ UNCHANGED <<reapVars, test, call, status, csv>>

\* AddProvider without the check for a registered name
AddProvider_Overwrite(g) ==
    /\ reg.pcg[g].at = "called"
    /\ reg.pcg[g].fn = "AddProvider"
    /\ LET name == reg.pcg[g].name
           provider == reg.pcg[g].provider
           out == IF name = "" THEN ErrNameRequired
                  ELSE IF provider = NilBuilder THEN ErrNilFactory
                  ELSE NoErr
       IN  reg' = [reg EXCEPT
                     !.providers =
                         IF out = NoErr
                         THEN [n \in DOMAIN reg.providers \cup {name} |->
                                  IF n = name THEN provider ELSE reg.providers[n]]
                         ELSE @,
                     !.pcg[g].at = "done",
                     !.pcg[g].out = out]
    /\ UNCHANGED <<orchVars, pc, err, lastPos, storeVars, pipeVars, crashVars>>
    /\ UNCHANGED <<reapVars, test, call, status, csv>>

\* the body of AddProvider, all of it under r.lock: the three checks in the
\* order of the code, then the insertion
AddProvider(g) ==
    /\ reg.pcg[g].at = "called"
    /\ reg.pcg[g].fn = "AddProvider"
    /\ LET name == reg.pcg[g].name
           provider == reg.pcg[g].provider
           out == IF name = "" THEN ErrNameRequired
                  ELSE IF name \in DOMAIN reg.providers THEN ErrRegistered
                  ELSE IF provider = NilBuilder THEN ErrNilFactory
                  ELSE NoErr
       IN  reg' = [reg EXCEPT
                     !.providers =
                         IF out = NoErr
                         THEN [n \in DOMAIN reg.providers \cup {name} |->
                                  IF n = name THEN provider ELSE reg.providers[n]]
                         ELSE @,
                     !.pcg[g].at = "done",
                     !.pcg[g].out = out]
    /\ UNCHANGED <<orchVars, pc, err, lastPos, storeVars, pipeVars, crashVars>>
    /\ UNCHANGED <<reapVars, test, call, status, csv>>

\* the body of GetProvider under r.lock.RLock: the name is lowercased and
\* looked up
GetProvider(g) ==
    /\ reg.pcg[g].at = "called"
    /\ reg.pcg[g].fn = "GetProvider"
    /\ reg' = [reg EXCEPT
                  !.pcg[g].at = "done",
                  !.pcg[g].out = Lookup(reg.providers, ToLower(reg.pcg[g].name))]
    /\ UNCHANGED <<orchVars, pc, err, lastPos, storeVars, pipeVars, crashVars>>
    /\ UNCHANGED <<reapVars, test, call, status, csv>>

\* the caller has its result and goes on
RegReturn(g) ==
    /\ reg.pcg[g].at = "done"
    /\ reg' = [reg EXCEPT !.pcg[g] = NoReg.pcg[g]]
    /\ UNCHANGED <<orchVars, pc, err, lastPos, storeVars, pipeVars, crashVars>>
    /\ UNCHANGED <<reapVars, test, call, status, csv>>

\* ------------------------------------------------------------------------
\* decodeCSVFields.Run
\* ------------------------------------------------------------------------
\* Run is entered: with FailOnError the event is cloned
CSVRunStart ==
    /\ csv.state = "ready"
    /\ csv' = [csv EXCEPT !.state = "loop",
                          !.saved = IF csv.cfg.FailOnError THEN csv.event ELSE @,
                          !.todo = csv.cfg.fields]
    /\ UNCHANGED <<orchVars, pc, err, lastPos, storeVars, pipeVars, crashVars>>
    /\ UNCHANGED <<reapVars, test, call, status, reg>>

\* the loop of Run that returns the event it has worked on, not the clone
CSVDecodeStep_ReturnEvent(f) ==
    /\ csv.state = "loop"
    /\ f \in csv.todo
    /\ LET r == decodeCSVField(f[1], f[2], csv.event, csv.cfg) IN
        csv' = IF r.err # NoErr /\ csv.cfg.FailOnError
               THEN [csv EXCEPT !.state = "returned",
                                !.event = r.event,
                                !.log = @ \cup {<<f, r.err>>},
                                !.out = [event |-> r.event, err |-> r.err]]
               ELSE [csv EXCEPT !.event = r.event,
                                !.log = @ \cup {<<f, r.err>>},
                                !.todo = @ \ {f}]
    /\ UNCHANGED <<orchVars, pc, err, lastPos, storeVars, pipeVars, crashVars>>
    /\ UNCHANGED <<reapVars, test, call, status, reg>>

\* one turn of the loop over f.fields, in the order the map yields them:
\* decodeCSVField works on the event in place; with FailOnError an error
\* ends Run, which returns the clone and the error
CSVDecodeStep(f) ==
    /\ csv.state = "loop"
    /\ f \in csv.todo
    /\ LET r == decodeCSVField(f[1], f[2], csv.event, csv.cfg) IN
        csv' = IF r.err # NoErr /\ csv.cfg.FailOnError
               THEN [csv EXCEPT !.state = "returned",
                                !.event = r.event,
                                !.log = @ \cup {<<f, r.err>>},
                                !.out = [event |-> csv.saved, err |-> r.err]]
               ELSE [csv EXCEPT !.event = r.event,
                                !.log = @ \cup {<<f, r.err>>},
                                !.todo = @ \ {f}]
    /\ UNCHANGED <<orchVars, pc, err, lastPos, storeVars, pipeVars, crashVars>>
    /\ UNCHANGED <<reapVars, test, call, status, reg>>

\* the loop is over: return event, nil
CSVRunReturn ==
    /\ csv.state = "loop"
    /\ csv.todo = {}
    /\ csv' = [csv EXCEPT !.state = "returned",
                          !.out = [event |-> csv.event, err |-> NoErr]]
    /\ UNCHANGED <<orchVars, pc, err, lastPos, storeVars, pipeVars, crashVars>>
    /\ UNCHANGED <<reapVars, test, call, status, reg>>

\* ------------------------------------------------------------------------
\* The store's background reaper
\* ------------------------------------------------------------------------
\* a resource whose last-touched time plus TTL has elapsed
Stale(k) == age[k] > ttl[k]

\* time passes for the resources of the store
Tick ==
    /\ \E k \in resources : age[k] < MaxAge
    /\ age' = [k \in Keys |->
                 IF k \in resources /\ age[k] < MaxAge THEN age[k] + 1 ELSE age[k]]
    /\ UNCHANGED <<orchVars, pc, err, lastPos, storeVars, pipeVars, crashVars>>
    /\ UNCHANGED <<resources, hostVars>>

\* a reaper that does not look at the lock state of a resource
Reap_IgnoresLock(k) ==
    /\ k \in resources
    /\ Stale(k)
    /\ resources' = resources \ {k}
    /\ committed' = [committed EXCEPT ![k] = 0]
    /\ ttl' = [ttl EXCEPT ![k] = 0]
    /\ age' = [age EXCEPT ![k] = 0]
    /\ UNCHANGED <<orchVars, pc, err, lastPos, holder, pipeVars, crashVars>>
    /\ UNCHANGED hostVars

\* a reaper that removes every unlocked resource it scans
Reap_IgnoresTTL(k) ==
    /\ k \in resources
    /\ holder[k] = Free
    /\ resources' = resources \ {k}
    /\ committed' = [committed EXCEPT ![k] = 0]
    /\ ttl' = [ttl EXCEPT ![k] = 0]
    /\ age' = [age EXCEPT ![k] = 0]
    /\ UNCHANGED <<orchVars, pc, err, lastPos, holder, pipeVars, crashVars>>
    /\ UNCHANGED hostVars

\* the reaper scans the unlocked resources and removes a stale one, with
\* its checkpoint and TTL; the next reference to the key creates the
\* resource anew
Reap(k) ==
    /\ k \in resources
    /\ holder[k] = Free
    /\ Stale(k)
    /\ resources' = resources \ {k}
    /\ committed' = [committed EXCEPT ![k] = 0]
    /\ ttl' = [ttl EXCEPT ![k] = 0]
    /\ age' = [age EXCEPT ![k] = 0]
    /\ UNCHANGED <<orchVars, pc, err, lastPos, holder, pipeVars, crashVars>>
    /\ UNCHANGED hostVars

Orchestrate ==
    \/ \E i \in Inputs : RunStart(i)
    \/ \E i \in Inputs : ExternalCancel(i)
    \/ \E w \in Workers, o \in {NoErr, ErrConnect, PanicValue} : Connect(w, o)
    \/ \E w \in Workers : Lock(w)
    \/ \E w \in Workers : runSourceLockFailed(w)
    \/ \E w \in Workers : runSourceStart(w)
    \/ \E w \in Workers, e \in {NoErr, ErrFatal, PanicValue} : SourceEnd(w, e)
    \/ \E w \in Workers : Release(w)
    \/ \E w \in Workers : GoCancel(w)
    \/ \E w \in Workers : GoReturn(w)
    \/ \E i \in Inputs : RunReturn(i)

Deliver ==
    \/ \E w \in Workers : PublishUpdate(w)
    \/ \E w \in Workers, p \in {NilPrivate, OtherPrivate} : PublishPlain(w, p)
    \/ \E m \in 1..MaxQueue : Ack(m)

\* the collection path of a worker without failures
Collect ==
    \/ \E i \in Inputs : RunStart(i)
    \/ \E w \in Workers : Connect(w, NoErr)
    \/ \E w \in Workers : Lock(w)
    \/ \E w \in Workers : runSourceStart(w)
    \/ \E w \in Workers : SourceEnd(w, NoErr)
    \/ \E w \in Workers : Release(w)
    \/ \E w \in Workers : GoCancel(w)
    \/ \E w \in Workers : GoReturn(w)
    \/ \E i \in Inputs : RunReturn(i)

Next == Orchestrate
NextD == Collect \/ Deliver
NextC ==
    \/ Collect
    \/ \E w \in Workers : PublishUpdate(w)
    \/ \E m \in 1..MaxQueue : Ack(m)
    \/ Crash

\* three sources of one input, the only input the host runs: collection with
\* cursor updates, fatal errors of a source, confirmations
NextE ==
    \/ RunStart("in1")
    \/ \E w \in Workers : Connect(w, NoErr)
    \/ \E w \in Workers : Lock(w)
    \/ \E w \in Workers : runSourceLockFailed(w)
    \/ \E w \in Workers : runSourceStart(w)
    \/ \E w \in Workers : PublishUpdate(w)
    \/ \E w \in Workers, e \in {NoErr, ErrFatal} : SourceEnd(w, e)
    \/ \E w \in Workers : Release(w)
    \/ \E w \in Workers : GoCancel(w)
    \/ \E w \in Workers : GoReturn(w)
    \/ RunReturn("in1")
    \/ \E m \in 1..MaxQueue : Ack(m)

\* two inputs that read the same source are run again and again, and may
\* be cancelled by the host
NextL ==
    \/ Collect
    \/ \E i \in Inputs : ExternalCancel(i)
    \/ \E w \in Workers : runSourceLockFailed(w)
    \/ \E i \in Inputs : Restart(i)

\* The store serves the callers of Lock fairly (FIFO or better): a worker
\* for which the resource is free again and again gets it.  A worker that
\* holds a resource goes on: its source returns and the deferred
\* releaseResource runs.
FairL ==
    \A w \in Workers :
        /\ SF_vars(Lock(w))
        /\ WF_vars(runSourceStart(w))
        /\ WF_vars(SourceEnd(w, NoErr))
        /\ WF_vars(Release(w))

\* Scheduling of the goroutines and the blocking calls under cancellation:
\* every goroutine goes on with the steps that do not block; Lock observes
\* the cancellation of its context; a source returns once its context is
\* cancelled (it may collect for ever otherwise).
FairT ==
    /\ \A w \in Workers :
          /\ WF_vars(\E o \in {NoErr, ErrConnect, PanicValue} : Connect(w, o))
          /\ WF_vars(runSourceLockFailed(w))
          /\ WF_vars(runSourceStart(w))
          /\ WF_vars(Cancelled(InputOf(w))
                       /\ \E e \in {NoErr, ErrFatal, PanicValue} : SourceEnd(w, e))
          /\ WF_vars(Release(w))
          /\ WF_vars(GoCancel(w))
          /\ WF_vars(GoReturn(w))
    /\ \A i \in Inputs : WF_vars(RunReturn(i))

\* collection over a store that an earlier run has filled, while time
\* passes and the reaper scans
NextR ==
    \/ Collect
    \/ Tick
    \/ \E k \in Keys : Reap(k)

\* the reaper scans periodically: a resource that stays stale and unlocked
\* is removed
FairR == \A k \in Keys : WF_vars(Reap(k))

\* the host tests the inputs, before, while or after it runs them
NextV ==
    \/ Collect
    \/ \E i \in Inputs : TestStart(i)
    \/ \E w \in Workers, o \in {NoErr, ErrInvalid, PanicValue} : testSource(w, o)
    \/ \E i \in Inputs : TestReturn(i)

\* one call of a pure function
NextK ==
    \/ CallCreateSourceID
    \/ CallIsFIPSCapable
    \/ CallCheckFIPSCapability

\* the input reports its status
NextS == \E st \in Statuses, msg \in Messages : UpdateStatus(st, msg)

\* goroutines register and look up providers concurrently
NextG ==
    \/ \E g \in Callers, n \in RegNames, b \in Builders \cup {NilBuilder} :
          CallAddProvider(g, n, b)
    \/ \E g \in Callers, n \in RegNames : CallGetProvider(g, n)
    \/ \E g \in Callers : AddProvider(g)
    \/ \E g \in Callers : GetProvider(g)
    \/ \E g \in Callers : RegReturn(g)

\* one run of the processor
NextF ==
    \/ CSVRunStart
    \/ \E f \in UNION FieldSets : CSVDecodeStep(f)
    \/ CSVRunReturn

\* the pipeline confirms the published events in batches
NextA == \E m \in 1..MaxBatch : Ack(m)

Spec == Init /\ [][Next]_vars
SpecA == InitBatch /\ [][NextA]_vars
SpecT == Init /\ [][Next]_vars /\ FairT
SpecL == InitShared /\ [][NextL]_vars /\ FairL
SpecE == InitThree /\ [][NextE]_vars
SpecD == InitShared /\ [][NextD]_vars
SpecC == InitShared /\ [][NextC]_vars
SpecV == Init /\ [][NextV]_vars
SpecK == InitCall /\ [][NextK]_vars
SpecS == InitStatus /\ [][NextS]_vars
SpecG == InitRegistry /\ [][NextG]_vars
SpecF == InitCSV /\ [][NextF]_vars
SpecR == InitReap /\ [][NextR]_vars /\ FairR

\* ------------------------------------------------------------------------
\* Properties
\* ------------------------------------------------------------------------
\* the workers between a successful Lock and their releaseResource
Holders(k) ==
    {w \in Workers : KeyOf(w) = k /\ pc[w] \in {"locked", "running", "release"}}

\* the workers inside Lock
Waiters(k) == {w \in Workers : KeyOf(w) = k /\ pc[w] = "lock"}

\* the worker has been handed its Cursor and its source has been run
HasRun(w) == lastPos[w] >= 0

Failed(i) == {w \in sources[i] : err[w] # NoErr}

\* C1: for every resource key at most one worker is between Lock and
\* Release, that worker is the holder the store records, and while it holds
\* the lock no worker waiting in Lock for the key can acquire it.
C1_MutualExclusion ==
    \A k \in Keys :
        /\ Cardinality(Holders(k)) <= 1
        /\ Holders(k) # {} =>
              /\ holder[k] \in Holders(k)
              /\ \A w \in Waiters(k) : ~ENABLED Lock(w)

\* C1 witness: w1 of in1 holds the key both inputs compute while w3 of in2
\* waits in Lock for it
C1_Witness ==
    /\ KeyOf("w1") = KeyOf("w3")
    /\ pc["w1"] = "running"
    /\ holder[KeyOf("w1")] = "w1"
    /\ pc["w3"] = "lock"

\* the resource an UpdateOp was staged for
KeyOfOp(o) == ops[o].key

\* UpdateOps are numbered in the order of their production
Staged == 1..Len(ops)

\* in a step that confirms events: the UpdateOps of the confirmed batch
AckedOps ==
    OpsOf([j \in 1..(Len(queue) - Len(queue')) |-> queue[j].private])

MaxOf(S) == CHOOSE x \in S : \A y \in S : y <= x

\* C2: the committed checkpoint of a resource is its initial one or the
\* staged position of an UpdateOp that a confirmation batch has reported;
\* Execute is only called on reported UpdateOps; and every commit to a
\* resource is of an UpdateOp produced after the one committed before.
C2_NeverAhead ==
    /\ [](/\ \A k \in Keys : committed[k] = 0 \/ committed[k] \in confirmed
          /\ applied \subseteq confirmed)
    /\ [][\A k \in Keys :
             committed'[k] # committed[k] =>
                 /\ committed'[k] \in confirmed'
                 /\ committed'[k] > committed[k]]_vars

\* C2 witness: an UpdateOp is staged and in flight while the checkpoint of
\* its resource is the position of an earlier, confirmed one
C2_Witness ==
    \E o \in Staged :
        /\ o \notin confirmed
        /\ \E j \in 1..Len(queue) : queue[j].private = UpdateOpPrivate(o)
        /\ committed[KeyOfOp(o)] \in confirmed
        /\ committed[KeyOfOp(o)] < o

\* C3: a worker never reads the position of an unconfirmed UpdateOp as its
\* last position, and the first worker that locks a key after a restart
\* reads the checkpoint that was committed when the process terminated.
C3_CrashConsistency ==
    \A w \in Workers :
        HasRun(w) =>
            /\ lastPos[w] = 0 \/ lastPos[w] \in confirmed
            /\ (epoch > 0 /\ \A v \in Workers \ {w} :
                                 KeyOf(v) = KeyOf(w) => ~HasRun(v))
                  => lastPos[w] = atCrash[KeyOf(w)]

\* C3 witness: U1 was confirmed and committed, U2 was staged and lost with
\* the termination, and the restarted worker resumes from U1
C3_Witness ==
    \E w \in Workers :
        /\ epoch = 1
        /\ Len(ops) = 2 /\ confirmed = {1} /\ queue = <<>>
        /\ KeyOfOp(1) = KeyOf(w) /\ KeyOfOp(2) = KeyOf(w)
        /\ pc[w] = "running"
        /\ lastPos[w] = 1

\* C4: a batch that confirms UpdateOps of a Cursor up to Uj commits Uj's
\* position with one Execute, on Uj; the UpdateOps before Uj are not applied
\* one by one, and a later batch up to Uk commits Uk's position.
C4_Collapse ==
    [][(Len(queue') < Len(queue) /\ AckedOps # {}) =>
          LET j == MaxOf(AckedOps) IN
              /\ committed'[KeyOfOp(j)] = j
              /\ applied' = applied \cup {j}]_vars

\* C4 witness: U1, U2, U3 of one Cursor; a batch confirmed U1 and U2 and
\* committed U2 without applying U1, a later batch committed U3
C4_Witness ==
    /\ Len(ops) = 3
    /\ \A o \in Staged : ops[o].w = ops[1].w
    /\ confirmed = {1, 2, 3}
    /\ applied = {2, 3}
    /\ committed[KeyOfOp(3)] = 3

C6_GuaranteedRelease ==
    /\ \A w \in Workers :
          pc[w] \in {"ret", "exit", "finished"} => holder[KeyOf(w)] # w
    /\ \A i \in Inputs :
          result[i].returned => \A w \in sources[i], k \in Keys : holder[k] # w

\* C6 witness: Run has returned, one of its workers had acquired the lock
\* and panicked inside the source, and its resource is free again
C6_Witness ==
    \E w \in Workers :
        /\ result[InputOf(w)].returned
        /\ HasRun(w)
        /\ err[w] = ErrPanic
        /\ holder[KeyOf(w)] = Free

\* C7: whenever a worker ends with a non-nil error (connect, lock, source
\* or panic), the cancellation signal shared by the workers of its input is
\* cancelled before the goroutine returns and its error is collected, and
\* the siblings that have ended have released their resources.
C7_FailFast ==
    \A w \in Workers :
        /\ (pc[w] \in {"exit", "finished"} /\ err[w] # NoErr) =>
              /\ childCancel[InputOf(w)]
              /\ \A s \in sources[InputOf(w)] :
                    pc[s] = "finished" => holder[KeyOf(s)] # s
        /\ <<w, err[w]>> \in errs[InputOf(w)] => childCancel[InputOf(w)]

\* C7 witness: w1 has failed with a fatal error, the signal of in1 is
\* cancelled while Run still waits, and the sibling w2, which was running
\* its source, has unwound and released its resource
C7_Witness ==
    /\ inputState["in1"] = "Running"
    /\ pc["w1"] = "finished" /\ err["w1"] = ErrFatal
    /\ childCancel["in1"] /\ ~parentCancel["in1"]
    /\ pc["w2"] = "finished" /\ HasRun("w2")
    /\ holder[KeyOf("w2")] = Free

\* C8: a panic never leaves a worker: no worker ends the process, a worker
\* that has left runSource carries the panic as an error, and that error is
\* handled like a fatal error: the siblings are cancelled, the lock is
\* released, the error is collected and joined into the result of Run.
C8_PanicIsolation ==
    \A w \in Workers :
        /\ pc[w] # "crashed"
        /\ pc[w] \in {"ret", "exit", "finished"} => err[w] # PanicValue
        /\ (pc[w] = "finished" /\ err[w] = ErrPanic) =>
              /\ childCancel[InputOf(w)]
              /\ holder[KeyOf(w)] # w
              /\ <<w, ErrPanic>> \in errs[InputOf(w)]
        /\ (result[InputOf(w)].returned /\ w \in sources[InputOf(w)]
                /\ err[w] = ErrPanic) =>
              /\ result[InputOf(w)].failed
              /\ <<w, ErrPanic>> \in result[InputOf(w)].joined

\* C8 witness: the source of w1 panicked inside Run and Run of in1 has
\* returned an error that joins the panic
C8_Witness ==
    /\ HasRun("w1")
    /\ err["w1"] = ErrPanic
    /\ result["in1"].returned
    /\ <<"w1", ErrPanic>> \in result["in1"].joined

\* C9: Run has returned only if every worker it spawned has finished: none
\* is running, holds a lock or waits in Lock.
C9_FanIn ==
    \A i \in Inputs :
        (result[i].returned \/ inputState[i] = "Done") =>
            \A w \in sources[i] :
                /\ pc[w] = "finished"
                /\ w \notin Holders(KeyOf(w)) \cup Waiters(KeyOf(w))

\* C9 witness: Run of in1 has returned after one worker failed and the
\* other one, which ran its source, has finished as well
C9_Witness ==
    /\ inputState["in1"] = "Done"
    /\ err["w1"] = ErrConnect
    /\ HasRun("w2") /\ pc["w2"] = "finished"

\* C10: Run returns an error exactly if a worker ended with a non-nil
\* error; the error names the input and joins the errors of all workers
\* that failed; otherwise Run returns nil.
C10_RunResult ==
    \A i \in Inputs :
        result[i].returned =>
            /\ result[i].failed <=> Failed(i) # {}
            /\ result[i].failed =>
                  /\ result[i].id = i
                  /\ result[i].joined = {<<w, err[w]>> : w \in Failed(i)}
            /\ ~result[i].failed => result[i].joined = {}

\* C10 witness: Run of in1 has returned an error that joins the errors of
\* both of its workers
C10_Witness ==
    /\ result["in1"].returned
    /\ result["in1"].failed
    /\ Cardinality(result["in1"].joined) = 2

\* the UpdateOps a worker has staged
OpsBy(w) == {o \in Staged : ops[o].w = w}

\* C11: in an input with the three sources A, B and C, once A's Run has
\* returned a fatal error after staging one UpdateOp that is not confirmed:
\* the signal B and C observe is cancelled as soon as A's goroutine has got
\* past runSource, the checkpoint of A's resource is the one A's Cursor read
\* before the UpdateOp was staged, and when Run returns B and C have finished
\* and hold no lock and Run reports an error that names the input and joins
\* A's error.
C11_EndToEnd ==
    \A a \in sources["in1"] :
        (/\ Cardinality(sources["in1"]) = 3
         /\ err[a] = ErrFatal
         /\ Cardinality(OpsBy(a)) = 1
         /\ OpsBy(a) \cap confirmed = {}) =>
            /\ committed[KeyOf(a)] = lastPos[a]
            /\ committed[KeyOf(a)] \notin OpsBy(a)
            /\ pc[a] \in {"exit", "finished"} => childCancel["in1"]
            /\ result["in1"].returned =>
                  /\ result["in1"].failed
                  /\ result["in1"].id = "in1"
                  /\ <<a, ErrFatal>> \in result["in1"].joined
                  /\ \A b \in sources["in1"] \ {a} :
                        pc[b] = "finished" /\ holder[KeyOf(b)] = Free

\* C11 witness: A = w1 staged U1 and failed, U1 is not confirmed, B = w2 and
\* C = w4 had locked their resources and were collecting, and Run has
\* returned
C11_Witness ==
    /\ sources["in1"] = {"w1", "w2", "w4"}
    /\ err["w1"] = ErrFatal
    /\ OpsBy("w1") = {1} /\ confirmed = {}
    /\ HasRun("w2") /\ err["w2"] = NoErr
    /\ HasRun("w4") /\ err["w4"] = NoErr
    /\ result["in1"].returned
    /\ \A k \in Keys : holder[k] = Free

\* C12: when the Run of one source has returned an error, the error is
\* remembered and the collection of the other sources continues: while the
\* input is running, the signal its workers observe is cancelled by the host
\* only; and the input is done only after all its workers have returned.
C12_CollectionContinues ==
    \A i \in Inputs :
        /\ \A w \in sources[i] :
              (/\ inputState[i] = "Running"
               /\ HasRun(w) /\ err[w] = ErrFatal
               /\ pc[w] \in {"exit", "finished"}) =>
                  /\ pc[w] = "finished" => <<w, ErrFatal>> \in errs[i]
                  /\ Cancelled(i) => parentCancel[i]
        /\ inputState[i] = "Done" => \A w \in sources[i] : pc[w] = "finished"

\* C13: cancellation is not reported as an error: if the host has cancelled
\* the input and no worker failed on its own (every worker ended with nil,
\* or with the cancellation it observed while it waited in Lock for a
\* resource that another worker still holds), Run returns nil.
C13_CancelNotAnError ==
    \A i \in Inputs :
        (/\ result[i].returned
         /\ parentCancel[i]
         /\ \A w \in sources[i] :
               \/ err[w] = NoErr
               \/ err[w] = ErrCancelled /\ Holders(KeyOf(w)) # {}) =>
            ~result[i].failed

\* C14: single writer: the checkpoint of a resource is only committed, and
\* its TTL only updated, while the worker on whose behalf this happens holds
\* the lock of the resource: an UpdateOp is never applied after the worker
\* that staged it has released the lock.
C14_SingleWriter ==
    [][\A k \in Keys :
          /\ committed'[k] # committed[k] =>
                holder[k] = ops[committed'[k]].w
          /\ ttl'[k] # ttl[k] =>
                holder[k] # Free /\ pc[holder[k]] = "locked"]_vars

\* C15: when Lock returns to a worker whose context is cancelled without
\* having acquired the resource, it returns a cancellation error: the worker
\* does not become the holder, the lock state, the checkpoint and the TTL of
\* every resource are unchanged, and runSource returns at once, so that the
\* worker neither releases the resource nor runs the source.
C15_LockCancelled ==
    /\ [](\A w \in Workers :
            err[w] = ErrCancelled =>
                /\ ~HasRun(w)
                /\ holder[KeyOf(w)] # w
                /\ pc[w] \in {"ret", "exit", "finished"})
    /\ [][\A w \in Workers :
            (pc[w] = "lock" /\ pc'[w] # "lock") =>
                \/ pc'[w] = "locked" /\ holder'[KeyOf(w)] = w
                \/ /\ Cancelled(InputOf(w))
                   /\ err'[w] = ErrCancelled
                   /\ pc'[w] = "ret"
                   /\ holder' = holder
                   /\ committed' = committed
                   /\ ttl' = ttl]_vars

\* C15 witness: w3 was cancelled while w1 held the resource both want; w3
\* has finished with the cancellation error and w1 still holds the lock and
\* collects
C15_Witness ==
    /\ err["w3"] = ErrCancelled
    /\ pc["w3"] = "finished"
    /\ ~HasRun("w3")
    /\ holder[KeyOf("w3")] = "w1"
    /\ pc["w1"] = "running"

\* C16: with workers that lock and release the same resource key again and
\* again, a worker that waits in Lock and is not cancelled eventually
\* acquires the lock (or is cancelled), provided every holder eventually
\* releases: the lock is never free for ever while a worker waits for it.
C16_LockLiveness ==
    \A w \in Workers :
        (pc[w] = "lock" /\ ~Cancelled(InputOf(w)))
            ~> (pc[w] = "locked" \/ Cancelled(InputOf(w)))

\* C16 witness: w1 has held the resource (the TTL is the one its input
\* sets) and released it, w3 has acquired it, and w1 waits in Lock again
C16_Witness ==
    /\ pc["w3"] = "locked"
    /\ holder[KeyOf("w3")] = "w3"
    /\ ttl[KeyOf("w3")] = CleanTimeout("in1")
    /\ pc["w1"] = "lock"
    /\ ~Cancelled("in1")

\* C17: once the signal shared by the workers of an input is cancelled (by
\* the host or by the error of a sibling), and provided every source returns
\* after its context is cancelled, every worker of the input finishes (one
\* that waits in Lock does so without the holder releasing) and Run returns.
C17_ShutdownTerminates ==
    \A i \in Inputs :
        (inputState[i] = "Running" /\ Cancelled(i))
            ~> (result[i].returned /\ \A w \in sources[i] : pc[w] = "finished")

\* C17 witness: in2 was cancelled while its worker waited in Lock for the
\* resource w1 of in1 holds; Run of in2 has returned while w1, which is not
\* cancelled, still holds the resource and collects
C17_Witness ==
    /\ parentCancel["in2"]
    /\ result["in2"].returned
    /\ err["w3"] = ErrCancelled
    /\ holder[KeyOf("w3")] = "w1" /\ pc["w1"] = "running"
    /\ ~Cancelled("in1")

\* in a step that confirms events: the private payloads of the batch
Batch == [j \in 1..(Len(queue) - Len(queue')) |-> queue[j].private]

\* the indices of the UpdateOps in a batch
UpdateIdx(b) == {j \in 1..Len(b) : b[j].type = "updateOp"}

\* C18: when no private payload of the confirmed batch is an UpdateOp (all
\* are nil or of another type) the ACK handler counts nothing and executes
\* nothing, and no checkpoint changes.
C18_NoUpdateOps ==
    [][(Len(queue') < Len(queue) /\ UpdateIdx(Batch) = {}) =>
          /\ lastAck'.n = 0
          /\ lastAck'.executed = 0
          /\ applied' = applied
          /\ committed' = committed]_vars

\* C18 witness: a batch of two events without UpdateOp was confirmed while
\* an UpdateOp is still in flight; nothing was executed or committed
C18_Witness ==
    /\ lastAck.len = 2 /\ lastAck.n = 0 /\ lastAck.executed = 0
    /\ Len(ops) = 1 /\ Len(queue) = 1
    /\ applied = {} /\ confirmed = {}
    /\ \A k \in Keys : committed[k] = 0

\* C19: for a batch with at least one UpdateOp the ACK handler calls Execute
\* once, on the UpdateOp at the highest index of the batch: Execute is
\* called on that one and on no other UpdateOp of the batch, and nil entries
\* and entries of other types are skipped.
C19_ExecuteLast ==
    [][(Len(queue') < Len(queue) /\ UpdateIdx(Batch) # {}) =>
          LET last == Batch[MaxOf(UpdateIdx(Batch))].op IN
              /\ lastAck'.executed = last
              /\ applied' = applied \cup {last}]_vars

\* C19 witness: one batch of four events with two UpdateOps and two entries
\* that were skipped; Execute was called on the second UpdateOp only
C19_Witness ==
    /\ lastAck.len = 4 /\ lastAck.n = 2 /\ lastAck.executed = 2
    /\ Len(ops) = 2 /\ queue = <<>>
    /\ confirmed = {1, 2} /\ applied = {2}

\* C20 as stated: the n passed to Execute is the number of events confirmed
\* in the batch.
C20_CountsEvents ==
    [][(Len(queue') < Len(queue) /\ lastAck'.executed # 0) =>
          lastAck'.n = Len(Batch)]_vars

\* C20: the n passed to Execute is the number of UpdateOps among the private
\* payloads of the batch; events with a nil payload or a payload of another
\* type are not counted.
C20_CountsUpdateOps ==
    [][(Len(queue') < Len(queue) /\ lastAck'.executed # 0) =>
          lastAck'.n = Cardinality(UpdateIdx(Batch))]_vars

\* C20 witness: Execute was called for a batch that has more events than
\* UpdateOps
C20_Witness ==
    /\ lastAck.executed # 0
    /\ lastAck.n >= 1
    /\ lastAck.n < lastAck.len

\* C21: staging has no effect on persisted state: a step that stages an
\* UpdateOp leaves the checkpoint, the TTL and the lock state of every
\* resource unchanged, however many UpdateOps are staged; and the last
\* position a Cursor hands to the source is the committed checkpoint of its
\* resource, never the position of a staged UpdateOp that is not confirmed.
C21_StageFrame ==
    [][/\ Len(ops') > Len(ops) =>
             /\ committed' = committed
             /\ ttl' = ttl
             /\ holder' = holder
       /\ \A w \in Workers :
             (lastPos'[w] # lastPos[w] /\ lastPos'[w] >= 0) =>
                 /\ lastPos'[w] = committed[KeyOf(w)]
                 /\ lastPos'[w] \notin Staged \ confirmed]_vars

\* C21 witness: w1 staged two UpdateOps that are still in flight and
\* released the resource; the Cursor of w3 on the same resource read the
\* empty checkpoint, which is still the committed one
C21_Witness ==
    /\ Len(ops) = 2 /\ confirmed = {} /\ Len(queue) = 2
    /\ \A o \in Staged : ops[o].w = "w1"
    /\ pc["w3"] = "running" /\ lastPos["w3"] = 0
    /\ committed[KeyOf("w3")] = 0

\* the UpdateOps of a resource key on which Execute has been called
AppliedTo(k) == {o \in applied : KeyOfOp(o) = k}

\* C22: takeover: when a worker has locked its key and its source is run, the
\* last position it reads is the last checkpoint committed for that key,
\* also when it was committed for a worker of another input that computes
\* the same key; it reads the empty checkpoint only if no checkpoint has
\* been committed for the key.
C22_Takeover ==
    [][\A w \in Workers :
          (pc[w] = "locked" /\ pc'[w] = "running") =>
              IF AppliedTo(KeyOf(w)) = {}
              THEN lastPos'[w] = 0
              ELSE /\ lastPos'[w] = MaxOf(AppliedTo(KeyOf(w)))
                   /\ \A v \in Workers, o \in AppliedTo(KeyOf(w)) :
                         (ops[o].w = v /\ InputOf(v) # InputOf(w)) =>
                             lastPos'[w] >= o]_vars

\* C22 witness: w1 of in1 has finished, its checkpoint was committed, and
\* w3 of in2, which computes the same key, resumes from that checkpoint
C22_Witness ==
    /\ InputOf("w1") # InputOf("w3") /\ KeyOf("w1") = KeyOf("w3")
    /\ pc["w1"] = "finished"
    /\ pc["w3"] = "running"
    /\ lastPos["w3"] \in Staged
    /\ ops[lastPos["w3"]].w = "w1"

\* C23: the reaper never removes a resource whose lock is held, however
\* long ago it was touched and however small its TTL: a held resource is
\* in the store.
C23_HeldNotReaped == \A k \in Keys : holder[k] # Free => k \in resources

\* C23 witness: a held resource whose TTL has elapsed, after the reaper
\* has removed the resource once and a Lock has created it anew
C23_Witness ==
    /\ holder[KeyOf("w1")] = "w3"
    /\ KeyOf("w1") \in resources
    /\ Stale(KeyOf("w1"))
    /\ lastPos["w3"] = 0
    /\ age[KeyOf("w1")] = MaxAge

\* C24: TTL reaping: the reaper removes a resource only if it is unlocked
\* and was left untouched for longer than its TTL, and a resource that
\* stays so is removed; a Lock refreshes the last-touched time, and a
\* resource that is locked before its TTL expires is kept with its
\* committed checkpoint.
C24_TTLReaping ==
    /\ [][\A k \in Keys :
            /\ (k \in resources /\ k \notin resources') =>
                    (holder[k] = Free /\ Stale(k))
            /\ (k \in resources /\ holder[k] = Free /\ holder'[k] # Free) =>
                    /\ k \in resources'
                    /\ age'[k] = 0
                    /\ committed'[k] = committed[k]]_vars
    /\ \A k \in Keys :
          (k \in resources /\ holder[k] = Free /\ Stale(k))
              ~> (k \notin resources \/ holder[k] # Free)

\* C24 witness: w1 locked the resource in time and read the checkpoint of
\* the earlier run; after its release the resource went stale and was
\* removed, and w3 then started from the empty checkpoint
C24_Witness ==
    /\ lastPos["w1"] = 1
    /\ pc["w1"] = "finished"
    /\ lastPos["w3"] = 0
    /\ pc["w3"] = "finished"
    /\ resources = {}

\* C25: worker step order: the source's Run is entered only from a worker
\* that has locked its own key, with the TTL of the resource refreshed to
\* the clean timeout of the worker's input in the same step; while the
\* source runs the worker holds the lock, and the Cursor handed to Run is
\* bound to the locked resource: it has read that resource's checkpoint
\* and the updates it stages are addressed to that resource's key.
C25_StepOrder ==
    /\ [](\A w \in Workers :
            pc[w] = "running" =>
                /\ holder[KeyOf(w)] = w
                /\ KeyOf(w) \in resources
                /\ ttl[KeyOf(w)] = CleanTimeout(InputOf(w))
                /\ HasRun(w))
    /\ [][\A w \in Workers :
            /\ (~HasRun(w) /\ HasRun(w)') =>
                    /\ pc[w] = "locked" /\ pc'[w] = "running"
                    /\ holder[KeyOf(w)] = w /\ holder'[KeyOf(w)] = w
                    /\ ttl'[KeyOf(w)] = CleanTimeout(InputOf(w))
                    /\ lastPos'[w] = committed'[KeyOf(w)]
            /\ (Len(ops') > Len(ops) /\ ops'[Len(ops')].w = w) =>
                    /\ holder[KeyOf(w)] = w
                    /\ ops'[Len(ops')].key = KeyOf(w)]_vars

\* C25 witness: w3 of in2 took the resource over from w1 of in1, replaced
\* the clean timeout of in1 by that of in2, and its source has staged an
\* update through its Cursor
C25_Witness ==
    /\ pc["w1"] = "finished" /\ HasRun("w1")
    /\ pc["w3"] = "running"
    /\ holder[KeyOf("w3")] = "w3"
    /\ CleanTimeout("in2") # CleanTimeout("in1")
    /\ ttl[KeyOf("w3")] = CleanTimeout("in2")
    /\ \E o \in Staged : ops[o].w = "w3" /\ ops[o].key = KeyOf("w3")

\* the position of a worker's goroutine in managedInput.Run, in the order
\* of the code
Rank(p) ==
    CASE p = "idle" -> 0
      [] p = "connect" -> 1
      [] p = "lock" -> 2
      [] p = "locked" -> 3
      [] p = "running" -> 4
      [] p = "release" -> 5
      [] p = "ret" -> 6
      [] p = "exit" -> 7
      [] p = "finished" -> 8
      [] p = "crashed" -> 8

\* C26: no retry by this layer: within one call of Run the goroutines are
\* started once, one for each configured source and none else; a goroutine
\* only goes forward through runSource, so that the source's Run is
\* entered at most once per source and a source whose Run has returned,
\* with or without an error, is not started again.
C26_NoRetry ==
    [][/\ \A i \in Inputs :
            /\ inputState[i] # "Created" => inputState'[i] # "Created"
            /\ (inputState[i] = "Created" /\ inputState'[i] = "Running") =>
                    {w \in Workers : pc[w] = "idle" /\ pc'[w] = "connect"}
                        = sources[i]
       /\ \A w \in Workers :
            /\ Rank(pc'[w]) >= Rank(pc[w])
            /\ (pc[w] = "idle" /\ pc'[w] # "idle") =>
                    /\ w \in sources[InputOf(w)]
                    /\ inputState[InputOf(w)] = "Created"
                    /\ inputState'[InputOf(w)] = "Running"
            /\ (pc[w] # "running" /\ pc'[w] = "running") => ~HasRun(w)
            /\ Rank(pc[w]) >= 5 => pc'[w] \notin {"connect", "lock", "locked", "running"}]_vars

\* C26 witness: the source a of in1 has returned a fatal error and its
\* goroutine has ended, while Run of in1 has not returned yet and the
\* source b of in1 still runs
C26_Witness ==
    /\ inputState["in1"] = "Running"
    /\ pc["w1"] = "finished" /\ HasRun("w1") /\ err["w1"] = ErrFatal
    /\ <<"w1", ErrFatal>> \in errs["in1"]
    /\ pc["w2"] = "running"

\* the sources of input i whose validation failed, by an error or a panic
FailedTests(i) == {p[1] : p \in {q \in test[i].tested : q[2] # NoErr}}

\* C27: Test reports every failure: when Test has returned, input.Test was
\* called for every configured source, also when some failed, and all of
\* them had returned; the result is an error if and only if the validation
\* of at least one source failed, and the error joins one error for each
\* source that failed.
C27_TestJoinsAll ==
    \A i \in Inputs :
        test[i].state = "done" =>
            /\ test[i].out.returned
            /\ test[i].pending = {}
            /\ {p[1] : p \in test[i].tested} = sources[i]
            /\ test[i].out.failed <=> FailedTests(i) # {}
            /\ {e[1] : e \in test[i].out.joined} = FailedTests(i)
            /\ Cardinality(test[i].out.joined) = Cardinality(FailedTests(i))
            /\ test[i].out.failed => test[i].out.msg = "input tests failed"

\* C27 witness: Test of in1 has returned an error that joins the
\* validation error of source a and the recovered panic of source b
C27_Witness ==
    /\ test["in1"].state = "done"
    /\ test["in1"].tested = {<<"w1", ErrInvalid>>, <<"w2", PanicValue>>}
    /\ test["in1"].out.failed
    /\ test["in1"].out.joined = {<<"w1", ErrInvalid>>, <<"w2", ErrPanic>>}

\* C28: Test has no effect on persisted state: no step of Test takes or
\* releases a lock, changes a TTL, a checkpoint or the resources of the
\* store, connects to the pipeline or publishes; the store is the same
\* before and after every step of Test, for every outcome.
C28_TestFrame ==
    [][test' # test =>
          /\ holder' = holder
          /\ committed' = committed
          /\ ttl' = ttl
          /\ resources' = resources /\ age' = age
          /\ pc' = pc /\ lastPos' = lastPos
          /\ ops' = ops /\ queue' = queue /\ applied' = applied]_vars

\* C28 witness: Test of in1 has returned with a failure and a recovered
\* panic while the source a is held by the worker of in2; no worker of in1
\* has connected or locked
C28_Witness ==
    /\ test["in1"].state = "done"
    /\ test["in1"].tested = {<<"w1", PanicValue>>, <<"w2", ErrInvalid>>}
    /\ inputState["in1"] = "Created"
    /\ holder[KeyOf("w1")] = "w3"
    /\ \A w \in sources["in1"] : pc[w] = "idle"

\* C29: ResourceKey computation: createSourceID yields type::userID::name
\* when the user ID is not empty and type::name when it is empty, whatever
\* else the state holds; the keys of the configured sources are of that
\* form.
C29_SourceIDFormat ==
    /\ call.fn = "createSourceID" =>
          /\ call.userID # "" =>
                call.out = call.Type \o "::" \o call.userID \o "::" \o call.name
          /\ call.userID = "" =>
                call.out = call.Type \o "::" \o call.name
    /\ \A w \in Workers :
          /\ UserID(InputOf(w)) = ""
          /\ KeyOf(w) = ManagerType \o "::" \o SourceName(w)

\* C29 witness: createSourceID was called with a user ID
C29_Witness ==
    /\ call.fn = "createSourceID"
    /\ call.Type = "T" /\ call.userID = "u" /\ call.name = "a"
    /\ call.out = "T::u::a"

\* C30: capability flag default: IsFIPSCapable of a managedInput is the
\* wrapped input's value when that implements FIPSAwareInput and true
\* when it does not; checkFIPSCapability returns an error if and only if
\* the runner implements FIPSAwareInput and reports false.
C30_FIPSDefault ==
    /\ call.fn = "IsFIPSCapable" =>
          /\ call.kind = "plain" => call.out = "true"
          /\ call.kind = "capable" => call.out = "true"
          /\ call.kind = "incapable" => call.out = "false"
    /\ call.fn = "checkFIPSCapability" =>
          (call.out # NoErr <=> call.kind = "incapable")

\* C30 witness: IsFIPSCapable was called on a managedInput whose input
\* does not implement FIPSAwareInput, and returned true
C30_Witness ==
    /\ call.fn = "IsFIPSCapable"
    /\ call.kind = "plain"
    /\ call.out = "true"

\* C31: absent status reporter is tolerated: with a nil StatusReporter the
\* calls of UpdateStatus forward nothing and do not panic; with a reporter,
\* the reporter has received the status and message of every call, once
\* each and in the order of the calls.
C31_NilReporter ==
    /\ ~status.panicked
    /\ status.reporter = "nil" => status.forwarded = <<>>
    /\ status.reporter # "nil" => status.forwarded = status.calls

\* C31 witness: UpdateStatus was called twice on a Context without a
\* reporter
C31_Witness ==
    /\ status.reporter = "nil"
    /\ Len(status.calls) = MaxCalls
    /\ status.forwarded = <<>>
    /\ ~status.panicked

\* goroutine g executes the body of the registry method fn in this step
RegStep(g, fn) ==
    /\ reg.pcg[g].at = "called"
    /\ reg.pcg[g].fn = fn
    /\ reg'.pcg[g].at = "done"

\* C32: provider registry lookup: GetProvider(name) returns the builder
\* registered under the given name, and nil if there is none; after a
\* successful AddProvider(name, p), GetProvider(name) returns p.
C32_LookupByName ==
    [][\A g \in Callers :
          RegStep(g, "GetProvider") =>
              reg'.pcg[g].out = Lookup(reg.providers, reg.pcg[g].name)]_vars

\* goroutine g has returned from a successful AddProvider(name, _)
Added(g, name) ==
    /\ reg.pcg[g].at = "done"
    /\ reg.pcg[g].fn = "AddProvider"
    /\ reg.pcg[g].name = name
    /\ reg.pcg[g].out = NoErr

\* C39: AddProvider is all-or-nothing: it fails and leaves the registry
\* unchanged when the name is empty, the name is registered already or the
\* builder is nil, and registers the builder otherwise; no step overwrites
\* or removes a registered builder, and of the calls for one name that
\* goroutines make concurrently at most one succeeds.
C39_AllOrNothing ==
    /\ [](/\ "" \notin DOMAIN reg.providers
          /\ \A n \in DOMAIN reg.providers : reg.providers[n] # NilBuilder
          /\ \A g, h \in Callers, n \in RegNames :
                (Added(g, n) /\ Added(h, n)) => g = h)
    /\ [][/\ \A n \in DOMAIN reg.providers :
                /\ n \in DOMAIN reg'.providers
                /\ reg'.providers[n] = reg.providers[n]
          /\ \A g \in Callers :
                RegStep(g, "AddProvider") =>
                    LET name == reg.pcg[g].name
                        provider == reg.pcg[g].provider
                        bad == \/ name = ""
                               \/ name \in DOMAIN reg.providers
                               \/ provider = NilBuilder
                    IN  /\ reg'.pcg[g].out # NoErr <=> bad
                        /\ bad => reg'.providers = reg.providers
                        /\ ~bad => /\ DOMAIN reg'.providers =
                                        DOMAIN reg.providers \cup {name}
                                   /\ reg'.providers[name] = provider]_vars

\* C39 witness: g1 and g2 called AddProvider for the same name with
\* different builders at the same time; g2 registered its builder and g1
\* failed
C39_Witness ==
    /\ Added("g2", "docker")
    /\ reg.pcg["g2"].provider = "p2"
    /\ reg.pcg["g1"].at = "done"
    /\ reg.pcg["g1"].fn = "AddProvider"
    /\ reg.pcg["g1"].name = "docker"
    /\ reg.pcg["g1"].provider = "p1"
    /\ reg.pcg["g1"].out = ErrRegistered
    /\ Lookup(reg.providers, "docker") = "p2"

\* C33: a worker whose source Run returns nil does not trigger
\* cancellation: when its runSource has returned nil, the goroutine leaves
\* the signal of its input as it is and its siblings keep running and keep
\* their locks; the signal of a running input is cancelled by a worker
\* that failed or by the host only, and a release frees the lock of the
\* releasing worker only.
C33_NilNoCancel ==
    [][/\ \A w \in Workers :
            (pc[w] = "ret" /\ err[w] = NoErr /\ pc'[w] = "exit") =>
                /\ childCancel' = childCancel
                /\ parentCancel' = parentCancel
                /\ holder' = holder
                /\ \A s \in Workers \ {w} : pc'[s] = pc[s]
       /\ \A i \in Inputs :
            (~childCancel[i] /\ childCancel'[i]) =>
                \/ \E w \in sources[i] :
                      pc[w] = "ret" /\ err[w] # NoErr /\ pc'[w] = "exit"
                \/ inputState[i] = "Running" /\ inputState'[i] = "Done"
       /\ \A k \in Keys :
            (holder[k] # Free /\ holder'[k] = Free) =>
                /\ pc[holder[k]] = "release"
                /\ pc'[holder[k]] # "release"
                /\ \A j \in Keys \ {k} : holder'[j] = holder[j]]_vars

\* C33 witness: the source a of in1 returned nil and its worker has
\* finished and released its lock; the sibling w2 still collects under its
\* lock and the signal of in1 is not cancelled
C33_Witness ==
    /\ pc["w1"] = "finished" /\ HasRun("w1") /\ err["w1"] = NoErr
    /\ holder[KeyOf("w1")] # "w1"
    /\ pc["w2"] = "running" /\ holder[KeyOf("w2")] = "w2"
    /\ ~Cancelled("in1")
    /\ inputState["in1"] = "Running"

\* C34: cancellation scope: the cancel() of a worker that failed cancels
\* the signal derived inside the Run of its own input and nothing else:
\* the signal given by the host stays as it is and the signals of the
\* other inputs are not cancelled by it; the cancellation of the host's
\* signal reaches every worker of the input: a worker that waits in Lock
\* can leave it with the cancellation.
C34_CancelScope ==
    /\ [](\A w \in Workers :
            (pc[w] = "lock" /\ parentCancel[InputOf(w)]) =>
                /\ Cancelled(InputOf(w))
                /\ ENABLED runSourceLockFailed(w))
    /\ [][\A w \in Workers :
            (pc[w] = "ret" /\ err[w] # NoErr /\ pc'[w] = "exit") =>
                /\ childCancel'[InputOf(w)]
                /\ parentCancel' = parentCancel
                /\ \A j \in Inputs \ {InputOf(w)} :
                      /\ childCancel'[j] = childCancel[j]
                      /\ Cancelled(j)' = Cancelled(j)]_vars

\* C34 witness: w1 of in1 has failed and cancelled the signal of the
\* workers of in1; the host's signal of in1 is not cancelled, and w3 of in2
\* collects with a signal that is not cancelled
C34_Witness ==
    /\ pc["w1"] = "finished" /\ err["w1"] = ErrFatal
    /\ childCancel["in1"] /\ ~parentCancel["in1"]
    /\ inputState["in1"] = "Running"
    /\ pc["w3"] = "running"
    /\ ~Cancelled("in2")

\* C35: pipeline connect failure: a worker whose ConnectWith failed returns
\* that error from runSource at once: it has not locked its resource, not
\* touched a TTL or a checkpoint, and not run its source; the error is
\* fatal: the signal of the input is cancelled before the goroutine ends,
\* and the error is joined into the error Run returns.
C35_ConnectFailure ==
    /\ [](\A w \in Workers :
            err[w] = ErrConnect =>
                /\ ~HasRun(w)
                /\ holder[KeyOf(w)] # w
                /\ pc[w] \in {"ret", "exit", "finished"}
                /\ pc[w] \in {"exit", "finished"} => childCancel[InputOf(w)]
                /\ pc[w] = "finished" => <<w, ErrConnect>> \in errs[InputOf(w)]
                /\ result[InputOf(w)].returned =>
                      /\ result[InputOf(w)].failed
                      /\ <<w, ErrConnect>> \in result[InputOf(w)].joined)
    /\ [][\A w \in Workers :
            (pc[w] = "connect" /\ err'[w] = ErrConnect) =>
                /\ pc'[w] = "ret"
                /\ holder' = holder /\ ttl' = ttl /\ committed' = committed
                /\ resources' = resources
                /\ lastPos' = lastPos]_vars

\* C35 witness: the worker of source a could not connect; its sibling,
\* which was collecting, was cancelled; Run of in1 has returned an error
\* that joins the connect error
C35_Witness ==
    /\ err["w1"] = ErrConnect /\ pc["w1"] = "finished"
    /\ ~HasRun("w1")
    /\ HasRun("w2") /\ pc["w2"] = "finished"
    /\ result["in1"].returned /\ result["in1"].failed
    /\ <<"w1", ErrConnect>> \in result["in1"].joined
    /\ \A k \in Keys : ttl[k] = 0 \/ k = KeyOf("w2")

\* C36: ResourceKey uniqueness: for a fixed input type, two distinct pairs
\* of user ID and source name never produce the same ResourceKey, also
\* when a user ID is empty or a name contains the separator: the key that
\* createSourceID has returned is the key of no other pair.
C36_KeyUnique ==
    call.fn = "createSourceID" =>
        \A u \in UserIDs, n \in Names :
            <<u, n>> # <<call.userID, call.name>> =>
                sourceID(call.Type, u, n) # call.out

\* the workers other than w that address the resource key of w
SameKey(w) == {v \in Workers \ {w} : KeyOf(v) = KeyOf(w)}

\* C37: two sources that map to the same ResourceKey are serialized: the
\* sources of two such workers never run at the same time, the Run of the
\* second starts only after the first has released the lock, and a worker
\* that waits in Lock for a held resource leaves Lock only with the lock
\* or, when its signal is cancelled, with a cancellation error and without
\* ever running its source.
C37_Serialized ==
    /\ [](\A w \in Workers :
            /\ pc[w] = "running" =>
                  \A v \in SameKey(w) : pc[v] \notin {"locked", "running", "release"}
            /\ (pc[w] = "lock" /\ holder[KeyOf(w)] # Free) =>
                  ~HasRun(w) /\ ~ENABLED Lock(w))
    /\ [][\A w \in Workers :
            /\ (~HasRun(w) /\ HasRun(w)') =>
                  \A v \in SameKey(w) :
                      HasRun(v) =>
                          pc[v] \in {"ret", "exit", "finished"} /\ holder[KeyOf(v)] # v
            /\ (pc[w] = "lock" /\ holder[KeyOf(w)] # Free /\ pc'[w] # "lock") =>
                  /\ Cancelled(InputOf(w))
                  /\ err'[w] = ErrCancelled
                  /\ pc'[w] = "ret"
                  /\ ~HasRun(w)'
            /\ (pc[w] \in {"ret", "exit"} /\ err[w] = ErrCancelled) =>
                  ~HasRun(w)']_vars

\* C37 witness: w1 of in1 collects from source a and does not finish; w3
\* of in2 waited in Lock for the same key until the host cancelled in2,
\* and has returned the cancellation error without running its source
C37_Witness ==
    /\ KeyOf("w3") = KeyOf("w1")
    /\ pc["w1"] = "running" /\ holder[KeyOf("w1")] = "w1"
    /\ parentCancel["in2"]
    /\ pc["w3"] = "exit" /\ err["w3"] = ErrCancelled
    /\ ~HasRun("w3")

\* the sources of input i whose Test has panicked
PanickedTests(i) == {p[1] : p \in {q \in test[i].tested : q[2] = PanicValue}}

\* C38: a panic inside a source's Test is recovered in testSource and
\* becomes the error of that source: Test is never left by a panic, the
\* Test of the sources that have not been tested yet can still run, and
\* when Test returns, the error it returns joins the error of every source
\* that panicked.
C38_TestPanic ==
    \A i \in Inputs :
        /\ test[i].state \in {"none", "testing", "done"}
        /\ \A w \in PanickedTests(i) :
              /\ <<w, ErrPanic>> \in test[i].errs
              /\ test[i].state = "testing" =>
                    \A v \in test[i].pending : ENABLED testSource(v, NoErr)
              /\ test[i].state = "testing" /\ test[i].pending = {} =>
                    ENABLED TestReturn(i)
              /\ test[i].state = "done" =>
                    /\ test[i].out.failed
                    /\ <<w, ErrPanic>> \in test[i].out.joined
                    /\ {p[1] : p \in test[i].tested} = sources[i]

\* C38 witness: the Test of source a panicked, the Test of source b ran
\* and passed, and Test of in1 has returned an error that holds the
\* recovered panic of a
C38_Witness ==
    /\ test["in1"].state = "done"
    /\ test["in1"].tested = {<<"w1", PanicValue>>, <<"w2", NoErr>>}
    /\ test["in1"].out.failed
    /\ test["in1"].out.joined = {<<"w1", ErrPanic>>}

\* the mappings whose decoding has failed in this run
FailedFields == {l[1] : l \in {x \in csv.log : x[2] # NoErr}}

\* C40: Run with fail_on_error is atomic over the configured fields: if
\* the decoding of a field fails, Run returns the error and an event equal
\* to the event as it was when Run started, and it returns an error only
\* then; without fail_on_error Run returns no error, and it has processed
\* every configured field, also those after one that failed.
C40_FailOnErrorAtomic ==
    csv.state = "returned" =>
        /\ csv.cfg.FailOnError =>
              /\ csv.out.err # NoErr <=> FailedFields # {}
              /\ FailedFields # {} => csv.out.event = csv.entry
              /\ FailedFields = {} =>
                    /\ {l[1] : l \in csv.log} = csv.cfg.fields
                    /\ csv.out.event = csv.event
        /\ ~csv.cfg.FailOnError =>
              /\ csv.out.err = NoErr
              /\ {l[1] : l \in csv.log} = csv.cfg.fields
              /\ csv.out.event = csv.event

\* C40 witness: with fail_on_error, the field m was decoded into d, then
\* the decoding of n failed; Run has returned the error and the event as
\* it was, without the decoded d
C40_Witness ==
    /\ csv.state = "returned"
    /\ csv.cfg.FailOnError
    /\ csv.log = {<<<<"m", "d">>, NoErr>>, <<<<"n", "n">>, ErrDecode>>}
    /\ csv.event["d"].type = "array"
    /\ csv.entry["d"] = Missing
    /\ csv.out.err = ErrDecode
    /\ csv.out.event = csv.entry

====
